---- MODULE Spec2Model ----
(***************************************************************************)
(* Prinsp screenshot tool: the annotation history (useAnnotation), the     *)
(* drag-to-select state machine (RegionSelector.vue) and the capture /     *)
(* cancel / confirm flow of App.vue, as state machines.                    *)
(*                                                                         *)
(* historyIndex is 0-based as in the source; TLA+ sequences are 1-based,   *)
(* so the snapshot history.value[i] of the source is history[i + 1] here.  *)
(***************************************************************************)
EXTENDS Integers, Sequences, FiniteSets, Bags, TLC

VARIABLES
    \* useAnnotation (src/unnamed/part_000)
    annotations,    \* annotations.value : sequence of Annotation
    history,        \* history.value     : sequence of snapshots
    historyIndex,   \* historyIndex.value: 0-based position in history
    shared,         \* which snapshot is the same array as annotations.value
    canUndo,        \* value of the computed canUndo as bound to the Toolbar
    canRedo,        \* value of the computed canRedo as bound to the Toolbar
    \* RegionSelector.vue
    isSelecting,    \* isSelecting.value: a drag is in progress
    startPoint,     \* startPoint.value : anchor of the drag
    endPoint,       \* endPoint.value   : current point of the drag
    emitted,        \* the events the last handler emitted to the parent
    \* App.vue
    mode,           \* mode.value: "idle" | "selecting" | "editing"
    appSelection,   \* selection.value of App.vue
    screenshotData, \* screenshotData.value: "" or the captured screen
    croppedImage,   \* croppedImage.value: "" or the image being edited
    ocrLoading,     \* ocrLoading.value
    ocrResult,      \* ocrResult.value: the string of the result panel
    showOcrResult,  \* showOcrResult.value
    flows,          \* bag of the async functions suspended at an await
    rejected,       \* the request whose failure the last step delivered, or "-"
    effects,        \* requests, dialogs and log lines issued by the last handler
    \* the painters of AnnotationEditor.vue and of confirm(), side by side
    renderIn,       \* the annotation handed to both painters
    previewOps,     \* canvas calls made by drawAnnotation
    exportOps,      \* canvas calls made by the painting loop of confirm()
    \* the computed toolbarPosition of App.vue
    layoutIn,       \* selection.value and window.innerWidth / innerHeight
    toolbarPos,     \* the style object toolbarPosition evaluates to
    ocrPos,         \* the style object ocrPosition evaluates to
    \* confirm() painting one annotation list in two runs
    compositeIn,    \* the base raster and the annotation list
    compositeRuns,  \* the canvas calls of each run made so far
    \* useAnnotation's currentTool and the state of AnnotationEditor.vue
    currentTool,    \* currentTool.value
    isDrawing,      \* isDrawing.value
    drawStart,      \* startPoint.value of the editor
    currentPoints,  \* currentPoints.value
    textInput,      \* textInput.value
    textPosition,   \* textPosition.value: <<>> for null, else <<point>>
    \* history variables of the verification (not program state)
    cancelled,      \* a cancel was signalled while selecting, in this capture
    recording,      \* whether lastOp / prev / prevSel are kept in this behaviour
    tracing,        \* whether a confirm() in flight remembers the list it was
                    \* called on
    lastOp,         \* the handler that ran last, with its arguments
    prev,           \* the useAnnotation state before that handler
    prevSel         \* the RegionSelector state before that handler (tracked
                    \* when the RegionSelector is explored on its own)

uaVars == <<annotations, history, historyIndex, shared, canUndo, canRedo>>
selVars == <<isSelecting, startPoint, endPoint, emitted>>
appVars == <<mode, appSelection, screenshotData, croppedImage, ocrLoading,
             ocrResult, showOcrResult, flows, rejected, effects, cancelled>>
dataVars == <<screenshotData, croppedImage>>
ocrVars == <<ocrLoading, ocrResult, showOcrResult>>
renderVars == <<renderIn, previewOps, exportOps>>
layoutVars == <<layoutIn, toolbarPos, ocrPos>>
compositeVars == <<compositeIn, compositeRuns>>
pureVars == <<renderVars, layoutVars, compositeVars>>
editorVars == <<currentTool, isDrawing, drawStart, currentPoints, textInput,
                textPosition>>
ghostVars == <<recording, tracing, lastOp, prev, prevSel>>
vars == <<annotations, history, historyIndex, shared, canUndo, canRedo,
          isSelecting, startPoint, endPoint, emitted,
          mode, appSelection, screenshotData, croppedImage, ocrLoading,
          ocrResult, showOcrResult, flows, rejected, effects, cancelled,
          renderIn, previewOps, exportOps, layoutIn, toolbarPos, ocrPos,
          compositeIn, compositeRuns,
          currentTool, isDrawing, drawStart, currentPoints, textInput, textPosition,
          recording, tracing, lastOp, prev, prevSel>>

----------------------------------------------------------------------------
(* Bounds of the model *)

\* largest number of snapshots history may hold before add / clear are cut off
MaxHistory == 4

\* the annotations a user may draw (opaque values)
Ann == {"A", "B"}

\* the same bound when the whole App is explored
MaxAppHistory == 3

\* largest number of async functions suspended at the same time
MaxFlows == 2

\* the annotations and pointer positions used when the whole App is explored
AppAnn == {"A"}
AppPoints == {[x |-> 0, y |-> 0], [x |-> 11, y |-> 11]}

\* natural size of the captured image (img.width, img.height)
FullImage == [width |-> 120, height |-> 80]

\* the pointer positions (clientX, clientY) the selector is driven with: they
\* include drags of width / height 10 and 11 and the drag (120,80) -> (40,30)
XCoords == {0, 10, 11, 40, 120}
YCoords == {0, 10, 11, 30, 80}
Point(px, py) == [x |-> px, y |-> py]
Points == {Point(px, py) : px \in XCoords, py \in YCoords}

----------------------------------------------------------------------------
(* useAnnotation: src/unnamed/part_000 *)

\* history.value.slice(0, n): the first n elements (all of them if n > length)
Slice(seq, n) == SubSeq(seq, 1, IF n < Len(seq) THEN n ELSE Len(seq))

\* history.value[i], 0-based
Snapshot(hist, i) == hist[i + 1]

\* saveHistory(): truncate past the index, push a copy of the list, point at it
saveHistoryNoTruncate(anns, hist, idx) ==
    LET pushed == Append(hist, anns)
    IN  [history |-> pushed, historyIndex |-> Len(pushed) - 1]

saveHistory(anns, hist, idx) ==
    LET sliced == Slice(hist, idx + 1)
        pushed == Append(sliced, anns)
    IN  [history |-> pushed, historyIndex |-> Len(pushed) - 1]

\* const canUndo = computed(() => historyIndex.value > 0)
canUndoOf(idx) == idx > 0

\* const canRedo = computed(() => historyIndex.value < history.value.length - 1)
canRedoOffByOne(idx, hist) == idx < Len(hist)

canRedoOf(idx, hist) == idx < Len(hist) - 1

\* The state of one useAnnotation instance as a record.  shared is the 0-based
\* position of the snapshot that is the same array object as annotations.value,
\* NoShare when annotations.value is an array of its own: the source always
\* assigns a spread copy ([...x]) or a fresh [], so it never shares.
NoShare == -1

UAState(anns, hist, idx, sh) ==
    [annotations |-> anns, history |-> hist, historyIndex |-> idx, shared |-> sh]

CurUA == UAState(annotations, history, historyIndex, shared)

\* annotations.value.push(a): an in-place push, seen through every reference
\* to the same array
PushShared(st, a) ==
    IF st.shared # NoShare /\ st.shared < Len(st.history)
    THEN [st.history EXCEPT ![st.shared + 1] = Append(@, a)]
    ELSE st.history

\* addAnnotation(annotation): push onto the list, then saveHistory()
addAnnotationOf(st, a) ==
    LET anns == Append(st.annotations, a)
        saved == saveHistory(anns, PushShared(st, a), st.historyIndex)
    IN  UAState(anns, saved.history, saved.historyIndex,
                IF st.shared <= st.historyIndex THEN st.shared ELSE NoShare)

\* undo(): guarded by historyIndex > 0; the list becomes a copy of the snapshot
undoNoCopy(st) ==
    IF st.historyIndex > 0
    THEN UAState(Snapshot(st.history, st.historyIndex - 1), st.history,
                 st.historyIndex - 1, st.historyIndex - 1)
    ELSE st

undoOf(st) ==
    IF st.historyIndex > 0
    THEN UAState(Snapshot(st.history, st.historyIndex - 1), st.history,
                 st.historyIndex - 1, NoShare)
    ELSE st

\* redo(): guarded by historyIndex < history.length - 1
redoKeepsList(st) ==
    IF st.historyIndex < Len(st.history) - 1
    THEN UAState(st.annotations, st.history, st.historyIndex + 1, st.shared)
    ELSE st

redoOf(st) ==
    IF st.historyIndex < Len(st.history) - 1
    THEN UAState(Snapshot(st.history, st.historyIndex + 1), st.history,
                 st.historyIndex + 1, NoShare)
    ELSE st

\* clear(): the list becomes a fresh empty array, then saveHistory()
clearResets(st) == UAState(<<>>, <<<<>>>>, 0, NoShare)

clearOf(st) ==
    LET saved == saveHistory(<<>>, st.history, st.historyIndex)
    IN  UAState(<<>>, saved.history, saved.historyIndex, NoShare)

\* a handler has run and left the instance in state st: the refs take the new
\* values and the computeds that depend on them are re-evaluated
SetUA(st) ==
    /\ annotations' = st.annotations
    /\ history' = st.history
    /\ historyIndex' = st.historyIndex
    /\ shared' = st.shared
    /\ canUndo' = canUndoOf(st.historyIndex)
    /\ canRedo' = canRedoOf(st.historyIndex, st.history)


\* there is room for one more snapshot after truncation at the index
RoomToCommit == historyIndex + 2 <= MaxHistory

InitUA ==
    /\ annotations = <<>>
    /\ history = <<<<>>>>
    /\ historyIndex = 0
    /\ shared = NoShare
    /\ canUndo = canUndoOf(0)
    /\ canRedo = canRedoOf(0, <<<<>>>>)

----------------------------------------------------------------------------
(* RegionSelector: src/src/components/RegionSelector.vue *)

\* Math.min, Math.abs
Min(a, b) == IF a < b THEN a ELSE b
Abs(a) == IF a < 0 THEN -a ELSE a

\* const selection = computed<Selection>(() => ({ x: Math.min(..), .. }))
selectionSigned(sp, ep) ==
    [x |-> sp.x, y |-> sp.y, width |-> ep.x - sp.x, height |-> ep.y - sp.y]

selectionOf(sp, ep) ==
    [x |-> Min(sp.x, ep.x),
     y |-> Min(sp.y, ep.y),
     width |-> Abs(ep.x - sp.x),
     height |-> Abs(ep.y - sp.y)]

\* the threshold of hasSelection
MinSize == 10

\* const hasSelection = computed(() => selection.value.width > 10 && ...)
hasSelectionInclusive(sel) == sel.width >= MinSize /\ sel.height >= MinSize

hasSelectionOf(sel) == sel.width > MinSize /\ sel.height > MinSize

SelState(sel, sp, ep) == [isSelecting |-> sel, startPoint |-> sp, endPoint |-> ep]

CurSel == SelState(isSelecting, startPoint, endPoint)

\* the computeds as the template reads them
selection == selectionOf(startPoint, endPoint)
hasSelection == hasSelectionOf(selection)

\* the refs of a freshly mounted RegionSelector
MountedSel == SelState(FALSE, Point(0, 0), Point(0, 0))

SetSel(st) ==
    /\ isSelecting' = st.isSelecting
    /\ startPoint' = st.startPoint
    /\ endPoint' = st.endPoint

\* onMouseDown(e): ignored inside .capture-toolbar, else the drag starts at e
onMouseDownOf(st, p, inToolbar) ==
    IF inToolbar THEN st ELSE SelState(TRUE, p, p)

\* onMouseMove(e): while dragging the current point follows the pointer
onMouseMoveOf(st, p) ==
    IF st.isSelecting THEN SelState(TRUE, st.startPoint, p) ELSE st

\* onMouseUp(): emit('select', selection.value) if dragging and large enough
onMouseUpEmits(st) ==
    IF st.isSelecting /\ hasSelectionOf(selectionOf(st.startPoint, st.endPoint))
    THEN <<[name |-> "select", sel |-> selectionOf(st.startPoint, st.endPoint)]>>
    ELSE <<>>

\* onMouseUp(): ... then isSelecting.value = false
onMouseUpOf(st) == SelState(FALSE, st.startPoint, st.endPoint)

\* an event without a Selection payload
Event(name) == [name |-> name, sel |-> selectionOf(Point(0, 0), Point(0, 0))]

\* onKeyDown(e): emit('cancel') on Escape
onKeyDownEmits(key) == IF key = "Escape" THEN <<Event("cancel")>> ELSE <<>>

----------------------------------------------------------------------------
(* App.vue: state and the synchronous parts of its functions *)

\* const selection = ref<Selection>({ x: 0, y: 0, width: 0, height: 0 })
ZeroSelection == [x |-> 0, y |-> 0, width |-> 0, height |-> 0]

\* an async function suspended at the await named pc
Flow(kind, pc) == [kind |-> kind, pc |-> pc]

Pending(f) == BagIn(f, flows)
Suspend(fl, f) == fl (+) SetToBag({f})
Resume(fl, f) == fl (-) SetToBag({f})

\* <RegionSelector v-if="mode === 'selecting'">: the component is created when
\* mode becomes 'selecting' and destroyed, with its refs, when mode leaves it
SelectorAfter(newMode, st) ==
    IF newMode = "selecting" /\ mode = "selecting" THEN st ELSE MountedSel

\* reset(): mode.value = 'idle'; clear(); ...
resetOf(st) == clearOf(st)

\* the screen as capture_screen_hidden returns it, and a region cut from it
Screenshot == "shot"
Cropped == "crop"

\* the save dialog: null (dismissed) or a path
NoPath == ""
SavePaths == {NoPath, "out.png"}

\* what ocr_image may answer ("" when no text was recognised) and the error
\* a rejected request carries
OcrTexts == {"", "hello"}
Errors == {"E"}

\* '(未识别到文字)' and '识别失败: '
NoTextFound == "(no text)"
FailureMarker == "failed: "

\* confirm() just called and nothing done yet.  src is img.src, raster is
\* finalData, path is savePath; clip and file list what was handed to
\* copy_to_clipboard and to save_image_to_file; called is the list confirm()
\* was called on, which the function does not keep (filled in when tracing)
NoRaster == [base |-> "", anns |-> <<>>]

ConfirmCalled(anns) ==
    [kind |-> "confirm", pc |-> "restore", called |-> anns, src |-> "",
     raster |-> NoRaster, clip |-> <<>>, path |-> NoPath, file |-> <<>>]

InitApp ==
    /\ mode = "idle"
    /\ appSelection = ZeroSelection
    /\ screenshotData = ""
    /\ croppedImage = ""
    /\ ocrLoading = FALSE
    /\ ocrResult = ""
    /\ showOcrResult = FALSE
    /\ flows = EmptyBag
    /\ rejected = "-"
    /\ effects = <<>>
    /\ cancelled = FALSE

\* the pure-function variables (painters, layout) are not used while the App runs
RenderIdle == renderIn = <<>> /\ previewOps = <<>> /\ exportOps = <<>>
LayoutIdle == layoutIn = <<>> /\ toolbarPos = <<>> /\ ocrPos = <<>>
CompositeIdle == compositeIn = <<>> /\ compositeRuns = <<>>

\* const currentTool = ref<ToolType>('select'); the refs of a mounted
\* AnnotationEditor
InitEditor ==
    /\ currentTool = "select"
    /\ isDrawing = FALSE
    /\ drawStart = [x |-> 0, y |-> 0]
    /\ currentPoints = <<>>
    /\ textInput = ""
    /\ textPosition = <<>>

InitPure == RenderIdle /\ LayoutIdle /\ CompositeIdle /\ InitEditor

----------------------------------------------------------------------------
(* Bookkeeping of the verification: which handler ran, from which state *)

Ran(op, arg, pt, flag) ==
    /\ recording' = recording
    /\ tracing' = tracing
    /\ IF recording
       THEN /\ lastOp' = [op |-> op, arg |-> arg, pt |-> pt, flag |-> flag]
            /\ prev' = CurUA
            /\ prevSel' = CurSel
       ELSE UNCHANGED <<lastOp, prev, prevSel>>

InitGhost ==
    /\ recording = TRUE
    /\ tracing = FALSE
    /\ lastOp = [op |-> "init", arg |-> "-", pt |-> Point(0, 0), flag |-> FALSE]
    /\ prev = UAState(<<>>, <<<<>>>>, 0, NoShare)
    /\ prevSel = MountedSel

InitSel ==
    /\ isSelecting = MountedSel.isSelecting
    /\ startPoint = MountedSel.startPoint
    /\ endPoint = MountedSel.endPoint
    /\ emitted = <<>>

----------------------------------------------------------------------------
(* The annotation history alone: any sequence of add / undo / redo / clear *)

addAnnotation(a) ==
    /\ RoomToCommit
    /\ SetUA(addAnnotationOf(CurUA, a))
    /\ Ran("addAnnotation", a, Point(0, 0), FALSE)
    /\ UNCHANGED <<selVars, appVars, pureVars, editorVars>>

undo ==
    /\ SetUA(undoOf(CurUA))
    /\ Ran("undo", "-", Point(0, 0), FALSE)
    /\ UNCHANGED <<selVars, appVars, pureVars, editorVars>>

redo ==
    /\ SetUA(redoOf(CurUA))
    /\ Ran("redo", "-", Point(0, 0), FALSE)
    /\ UNCHANGED <<selVars, appVars, pureVars, editorVars>>

clear ==
    /\ RoomToCommit
    /\ SetUA(clearOf(CurUA))
    /\ Ran("clear", "-", Point(0, 0), FALSE)
    /\ UNCHANGED <<selVars, appVars, pureVars, editorVars>>

InitHistory == InitUA /\ InitSel /\ InitApp /\ InitPure /\ InitGhost

NextHistory ==
    \/ \E a \in Ann : addAnnotation(a)
    \/ undo
    \/ redo
    \/ clear

SpecHistory == InitHistory /\ [][NextHistory]_vars

----------------------------------------------------------------------------
(* Properties of the annotation history *)

\* C1: after any sequence of addAnnotation / undo / redo / clear,
\* 0 <= historyIndex < history.length and the visible annotation list is
\* element-wise equal to history[historyIndex].
C1_IndexInRangeAndListIsSnapshot ==
    /\ 0 <= historyIndex
    /\ historyIndex < Len(history)
    /\ Len(annotations) = Len(Snapshot(history, historyIndex))
    /\ \A k \in 1..Len(annotations) :
           annotations[k] = Snapshot(history, historyIndex)[k]

\* a redo has just restored a non-empty snapshot in the middle of the history
C1_Witness ==
    /\ lastOp.op = "redo"
    /\ prev.historyIndex + 1 = historyIndex
    /\ historyIndex < Len(history) - 1
    /\ annotations # <<>>

\* C2: addAnnotation performed after undo (historyIndex < history.length - 1)
\* discards every snapshot past historyIndex: history becomes the old
\* history[0..historyIndex] followed by exactly one new snapshot (the old
\* visible list plus the new annotation), historyIndex is the last position,
\* canRedo is false and redo() is a no-op.
C2_AddAfterUndoDiscardsRedoBranch ==
    (lastOp.op = "addAnnotation" /\ prev.historyIndex < Len(prev.history) - 1)
    => /\ Len(history) = prev.historyIndex + 2
       /\ \A i \in 0..prev.historyIndex :
              Snapshot(history, i) = Snapshot(prev.history, i)
       /\ Snapshot(history, prev.historyIndex + 1)
              = prev.annotations \o <<lastOp.arg>>
       /\ historyIndex = Len(history) - 1
       /\ canRedo = FALSE
       /\ redoOf(CurUA) = CurUA

\* snapshots [{}, {A}], undo to index 0, add(B): snapshots are [{}, {B}]
C2_Witness ==
    /\ lastOp.op = "addAnnotation"
    /\ lastOp.arg = "B"
    /\ prev.history = << <<>>, <<"A">> >>
    /\ prev.historyIndex = 0
    /\ history = << <<>>, <<"B">> >>

\* C3: in every reachable state canUndo is true exactly when historyIndex > 0
\* and canRedo exactly when historyIndex < history.length - 1; the values
\* bound to the toolbar agree with what undo() and redo() would do now.
C3_CanUndoCanRedoTrackIndex ==
    /\ canUndo \in BOOLEAN /\ canRedo \in BOOLEAN
    /\ canUndo <=> historyIndex >= 1
    /\ canRedo <=> historyIndex + 2 <= Len(history)
    /\ canUndo <=> undoOf(CurUA) # CurUA
    /\ canRedo <=> redoOf(CurUA) # CurUA

\* after an undo in the middle of the history both are true
C3_Witness ==
    /\ lastOp.op = "undo"
    /\ canUndo
    /\ canRedo

\* C4: undo() at index 0 and redo() at the last index change nothing; otherwise
\* undo / redo move historyIndex by exactly 1 and replace the visible list; no
\* call of undo / redo changes history, and extending the visible list with
\* addAnnotation afterwards leaves the snapshots up to the index as they were.
C4_UndoRedoFrame ==
    /\ lastOp.op = "undo" =>
           /\ history = prev.history
           /\ IF prev.historyIndex = 0
              THEN historyIndex = 0 /\ annotations = prev.annotations
              ELSE /\ historyIndex = prev.historyIndex - 1
                   /\ annotations = Snapshot(prev.history, historyIndex)
    /\ lastOp.op = "redo" =>
           /\ history = prev.history
           /\ IF prev.historyIndex = Len(prev.history) - 1
              THEN historyIndex = prev.historyIndex
                   /\ annotations = prev.annotations
              ELSE /\ historyIndex = prev.historyIndex + 1
                   /\ annotations = Snapshot(prev.history, historyIndex)
    /\ lastOp.op = "addAnnotation" =>
           \A i \in 0..prev.historyIndex :
               Snapshot(history, i) = Snapshot(prev.history, i)

\* an addAnnotation that extends a list which undo took from a snapshot
C4_Witness ==
    /\ lastOp.op = "addAnnotation"
    /\ prev.historyIndex >= 1
    /\ prev.historyIndex < Len(prev.history) - 1
    /\ prev.annotations # <<>>

\* C5: clear() is undoable: right after clear() of a visible list L, undo()
\* makes the visible list L again and a following redo() makes it empty again.
C5_ClearIsUndoable ==
    lastOp.op = "clear" =>
        /\ annotations = <<>>
        /\ undoOf(CurUA).annotations = prev.annotations
        /\ redoOf(undoOf(CurUA)).annotations = <<>>
        /\ redoOf(undoOf(CurUA)).historyIndex = historyIndex

\* clear() of the list {A, B}
C5_Witness ==
    /\ lastOp.op = "clear"
    /\ prev.annotations = <<"A", "B">>

----------------------------------------------------------------------------
(* The RegionSelector alone: any sequence of pointer and key events *)

Keys == {"Escape", "Ctrl+Z", "Ctrl+Y"}

onMouseDown(p, inToolbar) ==
    /\ SetSel(onMouseDownOf(CurSel, p, inToolbar))
    /\ emitted' = <<>>
    /\ Ran("onMouseDown", "-", p, inToolbar)
    /\ UNCHANGED <<uaVars, appVars, pureVars, editorVars>>

onMouseMove(p) ==
    /\ SetSel(onMouseMoveOf(CurSel, p))
    /\ emitted' = <<>>
    /\ Ran("onMouseMove", "-", p, FALSE)
    /\ UNCHANGED <<uaVars, appVars, pureVars, editorVars>>

onMouseUp ==
    /\ SetSel(onMouseUpOf(CurSel))
    /\ emitted' = onMouseUpEmits(CurSel)
    /\ Ran("onMouseUp", "-", Point(0, 0), FALSE)
    /\ UNCHANGED <<uaVars, appVars, pureVars, editorVars>>

onKeyDown(key) ==
    /\ SetSel(CurSel)
    /\ emitted' = onKeyDownEmits(key)
    /\ Ran("onKeyDown", key, Point(0, 0), FALSE)
    /\ UNCHANGED <<uaVars, appVars, pureVars, editorVars>>

captureFullscreen ==
    /\ SetSel(CurSel)
    /\ emitted' = <<Event("fullscreen")>>
    /\ Ran("captureFullscreen", "-", Point(0, 0), FALSE)
    /\ UNCHANGED <<uaVars, appVars, pureVars, editorVars>>

cancelClick ==
    /\ SetSel(CurSel)
    /\ emitted' = <<Event("cancel")>>
    /\ Ran("cancelClick", "-", Point(0, 0), FALSE)
    /\ UNCHANGED <<uaVars, appVars, pureVars, editorVars>>

InitSelector == InitUA /\ InitSel /\ InitApp /\ InitPure /\ InitGhost

NextSelector ==
    \/ \E p \in Points, inToolbar \in BOOLEAN : onMouseDown(p, inToolbar)
    \/ \E p \in Points : onMouseMove(p)
    \/ onMouseUp
    \/ \E key \in Keys : onKeyDown(key)
    \/ captureFullscreen
    \/ cancelClick

SpecSelector == InitSelector /\ [][NextSelector]_vars

----------------------------------------------------------------------------
(* Properties of the RegionSelector *)

\* C7: while dragging, the anchor is the pointer-down position, the current
\* point is the last pointer position, and the live Selection is
\* {min(anchor.x,cur.x), min(anchor.y,cur.y), |cur.x-anchor.x|, |cur.y-anchor.y|}:
\* (x, y) is the top-left corner, width >= 0 and height >= 0, and the drag in
\* the reverse direction gives the same Selection.
C7_LiveSelectionNormalized ==
    /\ (lastOp.op = "onMouseDown" /\ ~lastOp.flag) =>
           isSelecting /\ startPoint = lastOp.pt /\ endPoint = lastOp.pt
    /\ (lastOp.op = "onMouseMove" /\ prevSel.isSelecting) =>
           isSelecting /\ startPoint = prevSel.startPoint /\ endPoint = lastOp.pt
    /\ isSelecting =>
           /\ selection.x <= startPoint.x /\ selection.x <= endPoint.x
           /\ selection.x \in {startPoint.x, endPoint.x}
           /\ selection.y <= startPoint.y /\ selection.y <= endPoint.y
           /\ selection.y \in {startPoint.y, endPoint.y}
           /\ selection.width >= 0 /\ selection.height >= 0
           /\ selection.width \in {endPoint.x - startPoint.x, startPoint.x - endPoint.x}
           /\ selection.height \in {endPoint.y - startPoint.y, startPoint.y - endPoint.y}
           /\ selectionOf(endPoint, startPoint) = selection

\* the drag from (120,80) to (40,30) shows Selection{x:40, y:30, width:80, height:50}
C7_Witness ==
    /\ isSelecting
    /\ lastOp.op = "onMouseMove"
    /\ startPoint = Point(120, 80)
    /\ endPoint = Point(40, 30)
    /\ selection = [x |-> 40, y |-> 30, width |-> 80, height |-> 50]

\* C8: on pointer-up a Selection is emitted if and only if the selector was
\* dragging and the live Selection has width > 10 and height > 10 (10x10 emits
\* nothing, 11x11 emits one); afterwards the selector is idle in every case; a
\* pointer-down inside the control region changes nothing and starts no drag.
C8_EmitOnPointerUpOverThreshold ==
    LET was == selectionOf(prevSel.startPoint, prevSel.endPoint)
    IN  /\ lastOp.op = "onMouseUp" =>
               /\ isSelecting = FALSE
               /\ emitted # <<>> <=>
                      (prevSel.isSelecting /\ was.width > 10 /\ was.height > 10)
               /\ emitted # <<>> =>
                      emitted = <<[name |-> "select", sel |-> was]>>
               /\ (was.width = 10 /\ was.height = 10) => emitted = <<>>
               /\ (prevSel.isSelecting /\ was.width = 11 /\ was.height = 11)
                      => Len(emitted) = 1
        /\ (lastOp.op = "onMouseDown" /\ lastOp.flag) =>
               /\ CurSel = prevSel
               /\ emitted = <<>>

\* a finished drag of 11x11 emitted one Selection
C8_Witness ==
    /\ lastOp.op = "onMouseUp"
    /\ prevSel.isSelecting
    /\ selectionOf(prevSel.startPoint, prevSel.endPoint).width = 11
    /\ selectionOf(prevSel.startPoint, prevSel.endPoint).height = 11
    /\ Len(emitted) = 1
    /\ emitted[1].name = "select"
    /\ ~isSelecting

----------------------------------------------------------------------------
(* The App: capture, selection, editing, cancel and confirm, with every     *)
(* await a point where other handlers may run                               *)

\* bookkeeping: the handler that ran and the useAnnotation state before it
RanApp(op, arg) ==
    /\ recording' = recording
    /\ tracing' = tracing
    /\ IF recording
       THEN /\ lastOp' = [op |-> op, arg |-> arg, pt |-> Point(0, 0), flag |-> FALSE]
            /\ prev' = CurUA
            /\ prevSel' = prevSel
       ELSE UNCHANGED <<lastOp, prev, prevSel>>

AppRoomToCommit == historyIndex + 2 <= MaxAppHistory

CanSuspend(n) == BagCardinality(flows) + n <= MaxFlows

\* mode.value = newMode, with the RegionSelector created / destroyed by v-if
SetMode(newMode, st) ==
    /\ mode' = newMode
    /\ SetSel(SelectorAfter(newMode, st))

\* a handler that was started by the user, not by the answer to a request
NoFailure == rejected' = "-"

\* startCapture() up to its first await: invoke('capture_screen_hidden');
\* called by the idle screen's button and by the 'start-capture' event
AppStartCapture ==
    /\ CanSuspend(1)
    /\ flows' = Suspend(flows, Flow("startCapture", "capture"))
    /\ cancelled' = FALSE
    /\ emitted' = <<>>
    /\ effects' = <<"capture_screen_hidden">>
    /\ NoFailure
    /\ RanApp("startCapture", "-")
    /\ UNCHANGED <<uaVars, isSelecting, startPoint, endPoint, mode, appSelection,
                   dataVars, ocrVars, pureVars, editorVars>>

\* startCapture(): screenshotData.value = <result>; await invoke('show_window_fullscreen')
AppCaptureDone ==
    /\ Pending(Flow("startCapture", "capture"))
    /\ flows' = Suspend(Resume(flows, Flow("startCapture", "capture")),
                        Flow("startCapture", "show"))
    /\ screenshotData' = Screenshot
    /\ emitted' = <<>>
    /\ effects' = <<"show_window_fullscreen">>
    /\ NoFailure
    /\ RanApp("captureDone", "-")
    /\ UNCHANGED <<uaVars, isSelecting, startPoint, endPoint, mode, appSelection,
                   croppedImage, ocrVars, cancelled, pureVars, editorVars>>

\* startCapture() has no try / catch: what it does when the awaited
\* capture_screen_hidden is rejected (the rejection leaves the function)
startCaptureOnFailure == <<>>

\* startCapture(): invoke('capture_screen_hidden') is rejected
AppCaptureFailed ==
    /\ Pending(Flow("startCapture", "capture"))
    /\ flows' = Resume(flows, Flow("startCapture", "capture"))
    /\ emitted' = <<>>
    /\ effects' = startCaptureOnFailure
    /\ rejected' = "capture_screen_hidden"
    /\ RanApp("captureFailed", "-")
    /\ UNCHANGED <<uaVars, isSelecting, startPoint, endPoint, mode, appSelection,
                   dataVars, ocrVars, cancelled, pureVars, editorVars>>

\* startCapture(): mode.value = 'selecting'
AppShowDone ==
    /\ Pending(Flow("startCapture", "show"))
    /\ flows' = Resume(flows, Flow("startCapture", "show"))
    /\ SetMode("selecting", CurSel)
    /\ emitted' = <<>>
    /\ effects' = <<>>
    /\ NoFailure
    /\ RanApp("showDone", "-")
    /\ UNCHANGED <<uaVars, appSelection, dataVars, ocrVars, cancelled, pureVars, editorVars>>

\* RegionSelector @mousedown
AppMouseDown(p, inToolbar) ==
    /\ mode = "selecting"
    /\ SetSel(onMouseDownOf(CurSel, p, inToolbar))
    /\ emitted' = <<>>
    /\ effects' = <<>>
    /\ NoFailure
    /\ RanApp("onMouseDown", "-")
    /\ UNCHANGED <<uaVars, mode, appSelection, dataVars, ocrVars, flows, cancelled,
                   pureVars, editorVars>>

\* RegionSelector @mousemove
AppMouseMove(p) ==
    /\ mode = "selecting"
    /\ SetSel(onMouseMoveOf(CurSel, p))
    /\ emitted' = <<>>
    /\ effects' = <<>>
    /\ NoFailure
    /\ RanApp("onMouseMove", "-")
    /\ UNCHANGED <<uaVars, mode, appSelection, dataVars, ocrVars, flows, cancelled,
                   pureVars, editorVars>>

\* RegionSelector @mouseup; an emitted 'select' runs onSelect(sel):
\* selection.value = sel; cropImage(); mode.value = 'editing'
onSelectRuns(ev) == ev # <<>>

\* cropImage() / onFullscreen(): img.src = 'data:image/png;base64,' +
\* screenshotData.value; onload is called back only for an image that loads
ImageLoads(src) == src # ""

\* cropImage(): the callback img.onload waiting for the image to load
cropImageCalls(fl) ==
    IF ImageLoads(screenshotData)
    THEN Suspend(fl, [kind |-> "cropImage", pc |-> "load", src |-> screenshotData])
    ELSE fl

AppMouseUp ==
    /\ mode = "selecting"
    /\ emitted' = onMouseUpEmits(CurSel)
    /\ IF onSelectRuns(onMouseUpEmits(CurSel))
       THEN /\ BagCardinality(cropImageCalls(flows)) <= MaxFlows
            /\ appSelection' = onMouseUpEmits(CurSel)[1].sel
            /\ flows' = cropImageCalls(flows)
            /\ SetMode("editing", onMouseUpOf(CurSel))
       ELSE /\ appSelection' = appSelection
            /\ flows' = flows
            /\ mode' = mode
            /\ SetSel(onMouseUpOf(CurSel))
    /\ effects' = <<>>
    /\ NoFailure
    /\ RanApp("onMouseUp", "-")
    /\ UNCHANGED <<uaVars, dataVars, ocrVars, cancelled, pureVars, editorVars>>

\* cropImage(): img.onload draws the selected region and sets croppedImage
AppCropLoaded ==
    \E f \in DOMAIN flows :
        /\ f.kind = "cropImage"
        /\ flows' = Resume(flows, f)
        /\ croppedImage' = Cropped
        /\ emitted' = <<>>
        /\ effects' = <<>>
        /\ NoFailure
        /\ RanApp("cropLoaded", "-")
        /\ UNCHANGED <<uaVars, isSelecting, startPoint, endPoint, mode, appSelection,
                       screenshotData, ocrVars, cancelled, pureVars, editorVars>>

\* cancel() up to its first await: invoke('restore_window')
cancelCalls(fl, n) ==
    IF n = 0 THEN fl
    ELSE IF n = 1 THEN Suspend(fl, Flow("cancel", "restore"))
    ELSE Suspend(Suspend(fl, Flow("cancel", "restore")), Flow("cancel", "restore"))

\* window keydown listener: no key reaches undo / redo / addAnnotation, the
\* useAnnotation state is left as it is
windowKeyDownOf(key, st) == st

\* window keydown listener: Escape in selecting / editing calls cancel()
windowKeyDownCancels(key) ==
    IF key = "Escape" /\ mode \in {"selecting", "editing"} THEN 1 ELSE 0

\* a key press: RegionSelector @keydown runs first when the selector has the
\* focus, then the event reaches the window listener
AppKeyDown(key, selectorFocused) ==
    LET fromSelector == IF mode = "selecting" /\ selectorFocused
                        THEN onKeyDownEmits(key) ELSE <<>>
        n == Len(fromSelector) + windowKeyDownCancels(key)
    IN  /\ selectorFocused => mode = "selecting"
        /\ CanSuspend(n)
        /\ emitted' = fromSelector
        /\ flows' = cancelCalls(flows, n)
        /\ cancelled' = (cancelled \/ (mode = "selecting" /\ n > 0))
        /\ SetUA(windowKeyDownOf(key, CurUA))
        /\ effects' = [i \in 1..n |-> "restore_window"]
        /\ NoFailure
        /\ RanApp("keyDown", key)
        /\ UNCHANGED <<isSelecting, startPoint, endPoint, mode, appSelection,
                       dataVars, ocrVars, pureVars, editorVars>>

\* the cancel button of the RegionSelector or of the Toolbar: @cancel="cancel"
AppCancelClick ==
    /\ mode \in {"selecting", "editing"}
    /\ CanSuspend(1)
    /\ emitted' = IF mode = "selecting" THEN <<Event("cancel")>> ELSE <<>>
    /\ flows' = cancelCalls(flows, 1)
    /\ cancelled' = (cancelled \/ mode = "selecting")
    /\ effects' = <<"restore_window">>
    /\ NoFailure
    /\ RanApp("cancelClick", "-")
    /\ UNCHANGED <<uaVars, isSelecting, startPoint, endPoint, mode, appSelection,
                   dataVars, ocrVars, pureVars, editorVars>>

\* reset(): mode.value = 'idle'; clear(); screenshotData.value = '';
\* croppedImage.value = ''; ocrResult.value = ''; showOcrResult.value = false
ResetRuns ==
    /\ SetMode("idle", CurSel)
    /\ SetUA(resetOf(CurUA))
    /\ screenshotData' = ""
    /\ croppedImage' = ""
    /\ ocrResult' = ""
    /\ showOcrResult' = FALSE
    /\ UNCHANGED <<ocrLoading, appSelection>>

\* cancel(): reset(); await invoke('hide_window')
AppCancelRestored ==
    /\ Pending(Flow("cancel", "restore"))
    /\ AppRoomToCommit
    /\ flows' = Suspend(Resume(flows, Flow("cancel", "restore")), Flow("cancel", "hide"))
    /\ ResetRuns
    /\ emitted' = <<>>
    /\ effects' = <<"hide_window">>
    /\ NoFailure
    /\ RanApp("cancelReset", "-")
    /\ UNCHANGED <<cancelled, pureVars, editorVars>>

\* cancel() and confirm() await invoke('restore_window') outside any try /
\* catch: what they do when it is rejected (the rejection leaves the function)
restoreOnFailure == <<>>

\* cancel(): invoke('restore_window') is rejected
AppCancelRestoreFailed ==
    /\ Pending(Flow("cancel", "restore"))
    /\ flows' = Resume(flows, Flow("cancel", "restore"))
    /\ emitted' = <<>>
    /\ effects' = restoreOnFailure
    /\ rejected' = "restore_window"
    /\ RanApp("cancelRestoreFailed", "-")
    /\ UNCHANGED <<uaVars, isSelecting, startPoint, endPoint, mode, appSelection,
                   dataVars, ocrVars, cancelled, pureVars, editorVars>>

\* cancel(): hide_window has answered, the function returns
AppCancelHidden ==
    /\ Pending(Flow("cancel", "hide"))
    /\ flows' = Resume(flows, Flow("cancel", "hide"))
    /\ emitted' = <<>>
    /\ effects' = <<>>
    /\ NoFailure
    /\ RanApp("cancelHidden", "-")
    /\ UNCHANGED <<uaVars, isSelecting, startPoint, endPoint, mode, appSelection,
                   dataVars, ocrVars, cancelled, pureVars, editorVars>>

\* the full-screen button: emit('fullscreen') runs onFullscreen(), which
\* starts loading the image
onFullscreenCalls(fl) ==
    IF ImageLoads(screenshotData) THEN Suspend(fl, Flow("onFullscreen", "load")) ELSE fl

AppCaptureFullscreen ==
    /\ mode = "selecting"
    /\ BagCardinality(onFullscreenCalls(flows)) <= MaxFlows
    /\ emitted' = <<Event("fullscreen")>>
    /\ flows' = onFullscreenCalls(flows)
    /\ effects' = <<>>
    /\ NoFailure
    /\ RanApp("captureFullscreen", "-")
    /\ UNCHANGED <<uaVars, isSelecting, startPoint, endPoint, mode, appSelection,
                   dataVars, ocrVars, cancelled, pureVars, editorVars>>

\* onFullscreen(): img.onload sets the Selection to the whole image,
\* croppedImage.value = screenshotData.value and mode.value = 'editing'
AppFullscreenLoaded ==
    /\ Pending(Flow("onFullscreen", "load"))
    /\ flows' = Resume(flows, Flow("onFullscreen", "load"))
    /\ appSelection' = [x |-> 0, y |-> 0, width |-> FullImage.width,
                        height |-> FullImage.height]
    /\ croppedImage' = screenshotData
    /\ SetMode("editing", CurSel)
    /\ emitted' = <<>>
    /\ effects' = <<>>
    /\ NoFailure
    /\ RanApp("fullscreenLoaded", "-")
    /\ UNCHANGED <<uaVars, screenshotData, ocrVars, cancelled, pureVars, editorVars>>

\* AnnotationEditor @add-annotation="addAnnotation"
AppAddAnnotation(a) ==
    /\ mode = "editing"
    /\ AppRoomToCommit
    /\ SetUA(addAnnotationOf(CurUA, a))
    /\ emitted' = <<>>
    /\ effects' = <<>>
    /\ NoFailure
    /\ RanApp("addAnnotation", a)
    /\ UNCHANGED <<isSelecting, startPoint, endPoint, mode, appSelection, dataVars,
                   ocrVars, flows, cancelled, pureVars, editorVars>>

\* Toolbar undo button (:disabled="!canUndo"), @undo="undo"
AppUndo ==
    /\ mode = "editing"
    /\ canUndo
    /\ SetUA(undoOf(CurUA))
    /\ emitted' = <<>>
    /\ effects' = <<>>
    /\ NoFailure
    /\ RanApp("undo", "-")
    /\ UNCHANGED <<isSelecting, startPoint, endPoint, mode, appSelection, dataVars,
                   ocrVars, flows, cancelled, pureVars, editorVars>>

\* Toolbar redo button (:disabled="!canRedo"), @redo="redo"
AppRedo ==
    /\ mode = "editing"
    /\ canRedo
    /\ SetUA(redoOf(CurUA))
    /\ emitted' = <<>>
    /\ effects' = <<>>
    /\ NoFailure
    /\ RanApp("redo", "-")
    /\ UNCHANGED <<isSelecting, startPoint, endPoint, mode, appSelection, dataVars,
                   ocrVars, flows, cancelled, pureVars, editorVars>>

\* confirm() up to its first await: invoke('restore_window')
AppConfirm ==
    /\ mode = "editing"
    /\ CanSuspend(1)
    /\ flows' = Suspend(flows, ConfirmCalled(IF tracing THEN annotations ELSE <<>>))
    /\ emitted' = <<>>
    /\ effects' = <<"restore_window">>
    /\ NoFailure
    /\ RanApp("confirm", "-")
    /\ UNCHANGED <<uaVars, isSelecting, startPoint, endPoint, mode, appSelection,
                   dataVars, ocrVars, cancelled, pureVars, editorVars>>

\* confirm() resumes from the await where f is suspended and suspends at the
\* next one as g, touching no state of the App
ConfirmAdvance(f, g) ==
    /\ flows' = Suspend(Resume(flows, f), g)
    /\ emitted' = <<>>
    /\ RanApp("confirm:" \o g.pc, "-")
    /\ UNCHANGED <<uaVars, isSelecting, startPoint, endPoint, mode, appSelection,
                   dataVars, ocrVars, cancelled, pureVars, editorVars>>

\* confirm(): the window is restored; img.src = ... + croppedImage.value and
\* the function waits for img.onload
AppConfirmRestored ==
    \E f \in DOMAIN flows :
        /\ f.kind = "confirm" /\ f.pc = "restore"
        /\ ConfirmAdvance(f, [f EXCEPT !.pc = "imgLoad", !.src = croppedImage])
        /\ effects' = <<>>
        /\ NoFailure

\* confirm(): invoke('restore_window') is rejected
AppConfirmRestoreFailed ==
    \E f \in DOMAIN flows :
        /\ f.kind = "confirm" /\ f.pc = "restore"
        /\ flows' = Resume(flows, f)
        /\ emitted' = <<>>
        /\ effects' = restoreOnFailure
        /\ rejected' = "restore_window"
        /\ RanApp("confirmRestoreFailed", "-")
        /\ UNCHANGED <<uaVars, isSelecting, startPoint, endPoint, mode, appSelection,
                       dataVars, ocrVars, cancelled, pureVars, editorVars>>

\* confirm(): annotations.value.forEach(a => ...) walks the list that
\* annotations.value holds when the loop runs, first entry first
paintedAnnotations(called, current) == current

\* confirm(): the image has loaded; it is drawn, the annotations are painted
\* over it, finalData is taken from the canvas and copyToClipboard(finalData)
\* is awaited
AppConfirmImageLoaded ==
    \E f \in DOMAIN flows :
        /\ f.kind = "confirm" /\ f.pc = "imgLoad"
        /\ ImageLoads(f.src)
        /\ LET finalData == [base |-> f.src,
                             anns |-> paintedAnnotations(f.called, annotations)]
           IN  ConfirmAdvance(f, [f EXCEPT !.pc = "clipboard",
                                           !.raster = finalData,
                                           !.clip = Append(f.clip, finalData)])
        /\ effects' = <<"copy_to_clipboard">>
        /\ NoFailure

\* copyToClipboard(): try { await invoke('copy_to_clipboard') } catch (e)
\* { console.error(...); alert(...) } -- whether the call returns to confirm()
copyToClipboardReturns(ok) == TRUE

\* copyToClipboard(): what the catch block shows
copyToClipboardOnFailure == <<"console.error", "alert">>

\* confirm(): copyToClipboard has returned; the save dialog opens
AppConfirmCopied(ok) ==
    \E f \in DOMAIN flows :
        /\ f.kind = "confirm" /\ f.pc = "clipboard"
        /\ IF copyToClipboardReturns(ok)
           THEN /\ ConfirmAdvance(f, [f EXCEPT !.pc = "savePrompt"])
                /\ effects' = (IF ok THEN <<>> ELSE copyToClipboardOnFailure)
                                  \o <<"save">>
           ELSE /\ flows' = Resume(flows, f)
                /\ emitted' = <<>>
                /\ effects' = <<>>
                /\ RanApp("confirm:thrown", "-")
                /\ UNCHANGED <<uaVars, isSelecting, startPoint, endPoint, mode,
                               appSelection, dataVars, ocrVars, cancelled, pureVars, editorVars>>
        /\ rejected' = IF ok THEN "-" ELSE "copy_to_clipboard"

\* confirm(): if (savePath) { ... save_image_to_file ... }
savePathAlways(savePath) == TRUE

savePathGiven(savePath) == savePath # NoPath

\* confirm(): reset(); await invoke('hide_window')
ConfirmResets(f, g) ==
    /\ AppRoomToCommit
    /\ flows' = Suspend(Resume(flows, f), [g EXCEPT !.pc = "hide"])
    /\ ResetRuns
    /\ emitted' = <<>>
    /\ RanApp("confirmReset", "-")
    /\ UNCHANGED <<cancelled, pureVars, editorVars>>

\* confirm(): the save dialog has returned savePath (null when dismissed);
\* with a path save_image_to_file is awaited, without one reset() runs
AppConfirmSavePath(savePath) ==
    \E f \in DOMAIN flows :
        /\ f.kind = "confirm" /\ f.pc = "savePrompt"
        /\ IF savePathGiven(savePath)
           THEN /\ ConfirmAdvance(f, [f EXCEPT !.pc = "saveFile", !.path = savePath,
                                               !.file = Append(f.file, f.raster)])
                /\ effects' = <<"save_image_to_file">>
           ELSE /\ ConfirmResets(f, [f EXCEPT !.path = savePath])
                /\ effects' = <<"hide_window">>
        /\ NoFailure

\* confirm(): try { await invoke('save_image_to_file') } catch (e)
\* { console.error('Save error:', e) } -- whether confirm() goes on afterwards
saveFileRethrows(ok) == ok

saveFileCaught(ok) == TRUE

\* confirm(): save_image_to_file has answered, ok or not; reset() and
\* hide_window follow
AppConfirmSaved(ok) ==
    \E f \in DOMAIN flows :
        /\ f.kind = "confirm" /\ f.pc = "saveFile"
        /\ IF saveFileCaught(ok)
           THEN /\ ConfirmResets(f, f)
                /\ effects' = (IF ok THEN <<>> ELSE <<"console.error">>)
                                  \o <<"hide_window">>
           ELSE /\ flows' = Resume(flows, f)
                /\ emitted' = <<>>
                /\ effects' = <<>>
                /\ RanApp("confirm:thrown", "-")
                /\ UNCHANGED <<uaVars, isSelecting, startPoint, endPoint, mode,
                               appSelection, dataVars, ocrVars, cancelled, pureVars, editorVars>>
        /\ rejected' = IF ok THEN "-" ELSE "save_image_to_file"

\* confirm(): hide_window has answered, the function returns
AppConfirmHidden ==
    \E f \in DOMAIN flows :
        /\ f.kind = "confirm" /\ f.pc = "hide"
        /\ flows' = Resume(flows, f)
        /\ emitted' = <<>>
        /\ effects' = <<>>
        /\ NoFailure
        /\ RanApp("confirmHidden", "-")
        /\ UNCHANGED <<uaVars, isSelecting, startPoint, endPoint, mode, appSelection,
                       dataVars, ocrVars, cancelled, pureVars, editorVars>>

\* performOcr(): if (ocrLoading.value) return
performOcrAlways(loading) == TRUE

performOcrStarts(loading) == ~loading

\* Toolbar @ocr="performOcr": ocrLoading.value = true; await invoke('ocr_image')
AppOcr ==
    /\ mode = "editing"
    /\ performOcrStarts(ocrLoading) => CanSuspend(1)
    /\ IF performOcrStarts(ocrLoading)
       THEN /\ ocrLoading' = TRUE
            /\ flows' = Suspend(flows, Flow("performOcr", "ocr"))
            /\ effects' = <<"ocr_image">>
       ELSE /\ UNCHANGED <<ocrLoading, flows>>
            /\ effects' = <<>>
    /\ emitted' = <<>>
    /\ NoFailure
    /\ RanApp("performOcr", "-")
    /\ UNCHANGED <<uaVars, isSelecting, startPoint, endPoint, mode, appSelection,
                   dataVars, ocrResult, showOcrResult, cancelled, pureVars, editorVars>>

\* performOcr(): ocrResult.value = text || '(...)'; showOcrResult.value = true;
\* if (text) await invoke('copy_text_to_clipboard'); finally ocrLoading = false
AppOcrDone(text) ==
    /\ Pending(Flow("performOcr", "ocr"))
    /\ ocrResult' = IF text = "" THEN NoTextFound ELSE text
    /\ showOcrResult' = TRUE
    /\ IF text # ""
       THEN /\ flows' = Suspend(Resume(flows, Flow("performOcr", "ocr")),
                                Flow("performOcr", "copyText"))
            /\ effects' = <<"copy_text_to_clipboard">>
            /\ ocrLoading' = ocrLoading
       ELSE /\ flows' = Resume(flows, Flow("performOcr", "ocr"))
            /\ effects' = <<>>
            /\ ocrLoading' = FALSE
    /\ emitted' = <<>>
    /\ NoFailure
    /\ RanApp("ocrDone", "-")
    /\ UNCHANGED <<uaVars, isSelecting, startPoint, endPoint, mode, appSelection,
                   dataVars, cancelled, pureVars, editorVars>>

\* performOcr(): catch (e) { ocrResult.value = '识别失败: ' + e;
\* showOcrResult.value = true }
ocrCatchHides(e) == [ocrResult |-> FailureMarker \o e, showOcrResult |-> FALSE]

ocrCatchOf(e) == [ocrResult |-> FailureMarker \o e, showOcrResult |-> TRUE]

\* performOcr(): invoke('ocr_image') is rejected with e; catch, then finally
AppOcrFailed(e) ==
    /\ Pending(Flow("performOcr", "ocr"))
    /\ flows' = Resume(flows, Flow("performOcr", "ocr"))
    /\ ocrResult' = ocrCatchOf(e).ocrResult
    /\ showOcrResult' = ocrCatchOf(e).showOcrResult
    /\ ocrLoading' = FALSE
    /\ emitted' = <<>>
    /\ effects' = <<>>
    /\ rejected' = "ocr_image"
    /\ RanApp("ocrFailed", "-")
    /\ UNCHANGED <<uaVars, isSelecting, startPoint, endPoint, mode, appSelection,
                   dataVars, cancelled, pureVars, editorVars>>

\* performOcr(): copy_text_to_clipboard has answered; a rejection is caught
\* by the same catch block; finally ocrLoading.value = false
AppOcrCopied(ok, e) ==
    /\ Pending(Flow("performOcr", "copyText"))
    /\ flows' = Resume(flows, Flow("performOcr", "copyText"))
    /\ ocrResult' = IF ok THEN ocrResult ELSE ocrCatchOf(e).ocrResult
    /\ showOcrResult' = IF ok THEN showOcrResult ELSE ocrCatchOf(e).showOcrResult
    /\ ocrLoading' = FALSE
    /\ emitted' = <<>>
    /\ effects' = <<>>
    /\ rejected' = IF ok THEN "-" ELSE "copy_text_to_clipboard"
    /\ RanApp("ocrCopied", "-")
    /\ UNCHANGED <<uaVars, isSelecting, startPoint, endPoint, mode, appSelection,
                   dataVars, cancelled, pureVars, editorVars>>

\* the App without the bookkeeping of the last handler
InitGhostOff ==
    /\ recording = FALSE
    /\ tracing = FALSE
    /\ lastOp = [op |-> "init", arg |-> "-", pt |-> Point(0, 0), flag |-> FALSE]
    /\ prev = UAState(<<>>, <<<<>>>>, 0, NoShare)
    /\ prevSel = MountedSel

Init == InitUA /\ InitSel /\ InitApp /\ InitPure /\ InitGhostOff

\* the App with the last handler and the state before it recorded
InitRecorded == InitUA /\ InitSel /\ InitApp /\ InitPure /\ InitGhost

\* entering the editor with the whole screen: capture, show, full-screen button
EnterEditing ==
    \/ AppStartCapture
    \/ AppCaptureDone
    \/ AppShowDone
    \/ AppCaptureFullscreen
    \/ AppFullscreenLoaded

\* leaving it by cancel
CancelSteps ==
    \/ AppCancelClick
    \/ AppCancelRestored
    \/ AppCancelHidden

\* capture, selection by drag or full screen, editing, cancel, and confirm
\* with every request of confirm answered without error
Next ==
    \/ AppStartCapture
    \/ AppCaptureDone
    \/ AppCaptureFailed
    \/ AppShowDone
    \/ \E p \in AppPoints, inToolbar \in BOOLEAN : AppMouseDown(p, inToolbar)
    \/ \E p \in AppPoints : AppMouseMove(p)
    \/ AppMouseUp
    \/ AppCropLoaded
    \/ \E key \in Keys, selectorFocused \in BOOLEAN : AppKeyDown(key, selectorFocused)
    \/ AppCancelClick
    \/ AppCancelRestored
    \/ AppCancelHidden
    \/ AppCaptureFullscreen
    \/ AppFullscreenLoaded
    \/ \E a \in AppAnn : AppAddAnnotation(a)
    \/ AppUndo
    \/ AppRedo
    \/ AppConfirm
    \/ AppConfirmRestored
    \/ AppConfirmImageLoaded
    \/ AppConfirmCopied(TRUE)
    \/ \E savePath \in SavePaths : AppConfirmSavePath(savePath)
    \/ AppConfirmSaved(TRUE)
    \/ AppConfirmHidden

Spec == Init /\ [][Next]_vars

\* the editor entered with the whole screen, its annotation list edited, keys
\* pressed and the session cancelled, with the last handler and the state
\* before it recorded
NextKeys ==
    \/ EnterEditing
    \/ CancelSteps
    \/ \E a \in AppAnn : AppAddAnnotation(a)
    \/ AppUndo
    \/ AppRedo
    \/ \E key \in Keys, selectorFocused \in BOOLEAN : AppKeyDown(key, selectorFocused)

SpecRecorded == InitRecorded /\ [][NextKeys]_vars

\* the editor entered with the whole screen, annotated, confirmed or
\* cancelled, with the clipboard write and the file write succeeding or failing
NextConfirm ==
    \/ EnterEditing
    \/ CancelSteps
    \/ \E a \in AppAnn : AppAddAnnotation(a)
    \/ AppConfirm
    \/ AppConfirmRestored
    \/ AppConfirmImageLoaded
    \/ \E ok \in BOOLEAN : AppConfirmCopied(ok)
    \/ \E savePath \in SavePaths : AppConfirmSavePath(savePath)
    \/ \E ok \in BOOLEAN : AppConfirmSaved(ok)
    \/ AppConfirmHidden

SpecConfirm == Init /\ [][NextConfirm]_vars

\* each confirm() remembers the list it was called on
InitTracing ==
    /\ recording = FALSE
    /\ tracing = TRUE
    /\ lastOp = [op |-> "init", arg |-> "-", pt |-> Point(0, 0), flag |-> FALSE]
    /\ prev = UAState(<<>>, <<<<>>>>, 0, NoShare)
    /\ prevSel = MountedSel

InitPainting == InitUA /\ InitSel /\ InitApp /\ InitPure /\ InitTracing

\* the editor entered with the whole screen and its annotation list edited
\* while confirm() is followed through its awaits up to the painting of the
\* composite and the clipboard request
NextPainting ==
    \/ EnterEditing
    \/ \E a \in AppAnn : AppAddAnnotation(a)
    \/ AppUndo
    \/ AppRedo
    \/ AppConfirm
    \/ AppConfirmRestored
    \/ AppConfirmImageLoaded

SpecPainting == InitPainting /\ [][NextPainting]_vars

\* the editor entered with the whole screen and annotated, OCR requested,
\* answered or failing, and the session cancelled meanwhile
NextOcr ==
    \/ EnterEditing
    \/ CancelSteps
    \/ \E a \in AppAnn : AppAddAnnotation(a)
    \/ AppOcr
    \/ \E text \in OcrTexts : AppOcrDone(text)
    \/ \E e \in Errors : AppOcrFailed(e)
    \/ \E ok \in BOOLEAN, e \in Errors : AppOcrCopied(ok, e)

SpecOcr == Init /\ [][NextOcr]_vars

\* the editor entered with the whole screen, then confirmed or cancelled, with
\* every request of confirm() and cancel() answered or rejected
NextCompletion ==
    \/ EnterEditing
    \/ CancelSteps
    \/ AppCancelRestoreFailed
    \/ AppConfirm
    \/ AppConfirmRestored
    \/ AppConfirmRestoreFailed
    \/ AppConfirmImageLoaded
    \/ \E ok \in BOOLEAN : AppConfirmCopied(ok)
    \/ \E savePath \in SavePaths : AppConfirmSavePath(savePath)
    \/ \E ok \in BOOLEAN : AppConfirmSaved(ok)
    \/ AppConfirmHidden

SpecCompletion == Init /\ [][NextCompletion]_vars

----------------------------------------------------------------------------
(* Properties of the App flow *)

\* C6: cancel (and the reset at the end of confirm) discards the editor state
\* including History: whenever the App is idle the annotation list is empty
\* and History is one empty snapshot at index 0, so canUndo and canRedo are
\* false when the next session starts.  (Refuted: reset() calls clear(), which
\* commits one more snapshot on top of the previous session's history.)
C6_ResetRestoresSeededHistory ==
    mode = "idle" =>
        /\ annotations = <<>>
        /\ history = << <<>> >>
        /\ historyIndex = 0
        /\ canUndo = FALSE
        /\ canRedo = FALSE

\* C9: once a cancel has been signalled during selecting, no 'select' event
\* of that capture is emitted and acted on.  (Refuted: cancel() awaits
\* restore_window before reset(), and a pointer-up handled meanwhile emits.)
C9_NoSelectAfterCancel ==
    cancelled => ~(Len(emitted) > 0 /\ emitted[1].name = "select")

\* C10: in editing mode Ctrl+Z has the effect of the toolbar's undo and Ctrl+Y
\* the effect of the toolbar's redo on the annotation list and History.
\* (Refuted: the keydown listener of App.vue only handles Escape.)
C10_CtrlZUndoesCtrlYRedoes ==
    (lastOp.op = "keyDown" /\ mode = "editing") =>
        /\ lastOp.arg = "Ctrl+Z" =>
               /\ annotations = undoOf(prev).annotations
               /\ history = undoOf(prev).history
               /\ historyIndex = undoOf(prev).historyIndex
        /\ lastOp.arg = "Ctrl+Y" =>
               /\ annotations = redoOf(prev).annotations
               /\ history = redoOf(prev).history
               /\ historyIndex = redoOf(prev).historyIndex

----------------------------------------------------------------------------
(* Properties of confirm(), of performOcr() and of a failing capture *)

\* the confirm() calls in flight
ConfirmFlows == {f \in DOMAIN flows : f.kind = "confirm"}

Issued(call) == \E i \in 1..Len(effects) : effects[i] = call

\* C11: in every confirm flow the composited raster is handed to the
\* clipboard write exactly once, whatever the save dialog will answer and
\* before the dialog opens; the file write is invoked if and only if the
\* dialog returned a path, and with the raster that went to the clipboard.
C11_ClipboardOnceFileIffPath ==
    \A f \in ConfirmFlows :
        /\ f.pc \in {"restore", "imgLoad"} => f.clip = <<>> /\ f.file = <<>>
        /\ f.pc \in {"clipboard", "savePrompt"} =>
               f.clip = <<f.raster>> /\ f.file = <<>> /\ f.path = NoPath
        /\ f.pc = "saveFile" =>
               f.clip = <<f.raster>> /\ f.file = f.clip /\ f.path # NoPath
        /\ f.pc = "hide" =>
               /\ f.clip = <<f.raster>>
               /\ f.file # <<>> <=> f.path # NoPath
               /\ f.file # <<>> => f.file = f.clip
        /\ (Issued("save") /\ f.pc = "savePrompt") => Len(f.clip) = 1

C11_Witness ==
    \E f \in ConfirmFlows :
        /\ f.pc = "hide" /\ f.path # NoPath
        /\ Len(f.clip) = 1 /\ f.file = f.clip
        /\ f.raster.anns # <<>>

\* C12: a file-write failure during confirm is isolated: the clipboard write
\* is neither undone nor repeated, the editor is not kept or reopened; reset
\* runs (mode becomes idle, the editor state is cleared) and hide_window is
\* called, as after a successful save.
C12_SaveFailureIsolated ==
    [][rejected' = "save_image_to_file" =>
          /\ mode' = "idle"
          /\ annotations' = <<>>
          /\ croppedImage' = "" /\ screenshotData' = ""
          /\ Issued("hide_window")'
          /\ ~Issued("copy_to_clipboard")'
          /\ \E f \in ConfirmFlows :
                 /\ f.pc = "saveFile"
                 /\ Len(f.clip) = 1
                 /\ flows' = Suspend(Resume(flows, f), [f EXCEPT !.pc = "hide"])]_vars

C12_Witness ==
    /\ rejected = "save_image_to_file"
    /\ mode = "idle"
    /\ \E f \in ConfirmFlows : f.pc = "hide" /\ Len(f.clip) = 1 /\ Len(f.file) = 1

\* C13: a clipboard-write failure during confirm is surfaced as a notice and
\* aborts the flow back to idle: the save dialog is not opened and the mode
\* is idle after the failure.  (Refuted: copyToClipboard catches the error,
\* shows the alert and returns; confirm() goes on to the save dialog.)
C13_ClipboardFailureAborts ==
    rejected = "copy_to_clipboard" =>
        /\ Issued("alert")
        /\ ~Issued("save")
        /\ mode = "idle"
        /\ \A f \in ConfirmFlows : f.pc \notin {"savePrompt", "saveFile"}

\* C14: when the capture request of startCapture fails, the failure is
\* surfaced as a notice, and mode, screenshot data, Selection, annotation
\* list and History are as before the attempt.  (Refuted: startCapture has
\* no try / catch and shows nothing; the alert of captureScreen in
\* useScreenshot is not on this path.)
C14_CaptureFailureSurfaced ==
    [][rejected' = "capture_screen_hidden" =>
          /\ Issued("alert")'
          /\ UNCHANGED <<mode, screenshotData, appSelection, annotations, history,
                         historyIndex>>]_vars

\* the performOcr() calls in flight
OcrInFlight ==
    CopiesIn(Flow("performOcr", "ocr"), flows)
        + CopiesIn(Flow("performOcr", "copyText"), flows)

\* C15: at most one OCR request is in flight at any time, and ocrLoading is
\* set exactly while one is: a trigger during a pending request starts
\* nothing, and the flag is cleared when the request completes, with success
\* or with failure, so that a later trigger is accepted.
C15_OneOcrInFlight ==
    /\ OcrInFlight <= 1
    /\ ocrLoading <=> OcrInFlight = 1

C15_Witness ==
    /\ showOcrResult
    /\ rejected = "-"
    /\ ocrResult = FailureMarker \o "E"
    /\ Pending(Flow("performOcr", "ocr"))
    /\ effects = <<>>

\* C16: when the OCR request fails, the displayed string is the failure
\* marker followed by the error and the result panel is shown; the mode is
\* left as it is (editing stays editing), annotation list, History, Selection
\* and cropped image are unchanged and no text is written to the clipboard.
C16_OcrFailureShown ==
    [][rejected' = "ocr_image" =>
          /\ \E e \in Errors : ocrResult' = FailureMarker \o e
          /\ showOcrResult' = TRUE
          /\ ~Issued("copy_text_to_clipboard")'
          /\ UNCHANGED <<mode, annotations, history, historyIndex, appSelection,
                         croppedImage>>]_vars

C16_Witness ==
    /\ rejected = "ocr_image"
    /\ mode = "editing"
    /\ annotations # <<>>
    /\ showOcrResult
    /\ ocrResult = FailureMarker \o "E"

\* C17: the list the composite paints, first entry first, is the list that
\* was current when confirm was invoked, whatever add / undo / redo ran
\* during the awaits of confirm.  (Refuted: the loop reads annotations.value
\* after the awaits for the window and the image.)
C17_PaintsListAtCall ==
    \A f \in ConfirmFlows : f.pc = "clipboard" => f.raster.anns = f.called

----------------------------------------------------------------------------
(* The two painters: drawAnnotation / drawArrow / drawMosaic of             *)
(* AnnotationEditor.vue and the painting loop of confirm() in App.vue, as   *)
(* the sequences of canvas calls they make for one annotation               *)

ToolTypes == {"select", "arrow", "rect", "text", "mosaic"}

\* the points, texts and styles the painters are driven with; fontSize 0
\* stands for a style without fontSize
RenderPoints == {Point(0, 0), Point(25, 10), Point(10, 25), Point(25, 25)}
RenderPointLists ==
    {<<>>} \cup {<<p>> : p \in RenderPoints}
           \cup {<<p, q>> : p \in RenderPoints, q \in RenderPoints}
           \cup {<<p, q, Point(0, 0)>> : p \in RenderPoints, q \in RenderPoints}
RenderTexts == {"", "hi"}
RenderStyles == {[color |-> "#ff0000", lineWidth |-> 2, fontSize |-> s] : s \in {0, 20}}

\* Math.random() as a stream: the n-th draw of a run started at seed
RandomSeeds == {0, 57}
RandomDraw(seed, n) == (seed + 37 * n) % 100

RenderInputs ==
    [type : ToolTypes, points : RenderPointLists, text : RenderTexts,
     style : RenderStyles, seed : RandomSeeds]

Call(op, args) == [op |-> op, args |-> args]

Max(a, b) == IF a > b THEN a ELSE b

\* to.x - headLen * Math.cos(angle -/+ Math.PI / 6), to.y - headLen *
\* Math.sin(angle -/+ Math.PI / 6) with angle = Math.atan2(to.y - from.y,
\* to.x - from.x), kept as the expression; turn is the sign before PI / 6
HeadPoint(from, to, headLen, turn) ==
    [tip |-> to, tail |-> from, headLen |-> headLen, turn |-> turn]

\* drawArrow(c, from, to)
drawArrow(from, to) ==
    << Call("beginPath", <<>>),
       Call("moveTo", <<from.x, from.y>>),
       Call("lineTo", <<to.x, to.y>>),
       Call("stroke", <<>>),
       Call("beginPath", <<>>),
       Call("moveTo", <<to.x, to.y>>),
       Call("lineTo", <<HeadPoint(from, to, 15, -1)>>),
       Call("lineTo", <<HeadPoint(from, to, 15, 1)>>),
       Call("closePath", <<>>),
       Call("fill", <<>>) >>

\* number of passes of for (let i = 0; i < w; i += blockSize)
PassesFloor(w, blockSize) == w \div blockSize

Passes(w, blockSize) == (w + blockSize - 1) \div blockSize

\* drawMosaic(c, from, to): for each i, for each j: one draw of gray, then
\* c.fillStyle = rgb(gray, gray, gray); c.fillRect(x + i, y + j, 10, 10)
drawMosaic(from, to, seed) ==
    LET blockSize == 10
        x == Min(from.x, to.x)
        y == Min(from.y, to.y)
        w == Abs(to.x - from.x)
        h == Abs(to.y - from.y)
        rows == Passes(h, blockSize)
        blocks == Passes(w, blockSize) * rows
    IN  [k \in 1..(2 * blocks) |->
            LET n == (k - 1) \div 2
                i == (n \div rows) * blockSize
                j == (n % rows) * blockSize
                gray == RandomDraw(seed, n) + 100
            IN  IF k % 2 = 1
                THEN Call("fillStyle", <<gray, gray, gray>>)
                ELSE Call("fillRect", <<x + i, y + j, blockSize, blockSize>>)]

\* c.strokeStyle = a.style.color; c.fillStyle = a.style.color;
\* c.lineWidth = a.style.lineWidth
SetStyle(a) ==
    << Call("strokeStyle", <<a.style.color>>),
       Call("fillStyle", <<a.style.color>>),
       Call("lineWidth", <<a.style.lineWidth>>) >>

\* c.font = `${a.style.fontSize || 16}px sans-serif`
SetFont(a) == Call("font", <<IF a.style.fontSize = 0 THEN 16 ELSE a.style.fontSize>>)

\* drawAnnotation(a): the switch on a.type
drawAnnotation(a) ==
    SetStyle(a) \o
    CASE a.type = "rect" ->
             IF Len(a.points) >= 2
             THEN <<Call("strokeRect", <<a.points[1].x, a.points[1].y,
                                          a.points[2].x - a.points[1].x,
                                          a.points[2].y - a.points[1].y>>)>>
             ELSE <<>>
      [] a.type = "arrow" ->
             IF Len(a.points) >= 2 THEN drawArrow(a.points[1], a.points[2]) ELSE <<>>
      [] a.type = "text" ->
             IF Len(a.points) >= 1 /\ a.text # ""
             THEN <<SetFont(a), Call("fillText", <<a.text, a.points[1].x, a.points[1].y>>)>>
             ELSE <<>>
      [] a.type = "mosaic" ->
             IF Len(a.points) >= 2
             THEN drawMosaic(a.points[1], a.points[2], a.seed)
             ELSE <<>>
      [] OTHER -> <<>>

\* confirm(): the body of annotations.value.forEach(a => ...)
confirmPaintsRandomWidth(a) ==
    <<Call("lineWidth", <<RandomDraw(a.seed, 0)>>)>> \o drawAnnotation(a)

\* confirm(): the body of annotations.value.forEach(a => ...), an if / else-if
\* chain; its text branch reads a.points[0].x without a test on the length,
\* which throws a TypeError when the annotation has no point
confirmPaints(a) ==
    SetStyle(a) \o
    IF a.type = "rect" /\ Len(a.points) >= 2
    THEN <<Call("strokeRect", <<a.points[1].x, a.points[1].y,
                                 a.points[2].x - a.points[1].x,
                                 a.points[2].y - a.points[1].y>>)>>
    ELSE IF a.type = "arrow" /\ Len(a.points) >= 2
    THEN drawArrow(a.points[1], a.points[2])
    ELSE IF a.type = "text" /\ a.text # ""
    THEN IF Len(a.points) >= 1
         THEN <<SetFont(a), Call("fillText", <<a.text, a.points[1].x, a.points[1].y>>)>>
         ELSE <<SetFont(a), Call("throw", <<"TypeError">>)>>
    ELSE IF a.type = "mosaic" /\ Len(a.points) >= 2
    THEN drawMosaic(a.points[1], a.points[2], a.seed)
    ELSE <<>>

InitRender ==
    /\ renderIn \in RenderInputs
    /\ previewOps = <<>>
    /\ exportOps = <<>>
    /\ LayoutIdle /\ CompositeIdle /\ InitEditor

\* redraw() of the editor paints the annotation
RenderPreview ==
    /\ previewOps = <<>>
    /\ previewOps' = drawAnnotation(renderIn)
    /\ UNCHANGED <<renderIn, exportOps, layoutVars, compositeVars, editorVars,
                   uaVars, selVars, appVars, ghostVars>>

\* confirm() paints the annotation, with Math.random() giving the same draws
RenderExport ==
    /\ exportOps = <<>>
    /\ exportOps' = confirmPaints(renderIn)
    /\ UNCHANGED <<renderIn, previewOps, layoutVars, compositeVars, editorVars,
                   uaVars, selVars, appVars, ghostVars>>

NextRender == RenderPreview \/ RenderExport

InitPainters == InitUA /\ InitSel /\ InitApp /\ InitGhostOff /\ InitRender

SpecRender == InitPainters /\ [][NextRender]_vars

Ceil10(n) == CHOOSE c \in 0..n : 10 * (c - 1) < n /\ n <= 10 * c

\* the positions of the fillRect calls in a sequence of canvas calls
FillRects(ops) == {k \in DOMAIN ops : ops[k].op = "fillRect"}

\* ops holds the calls of a painter for the mosaic annotation renderIn, as C30
\* describes them
MosaicTiled(ops) ==
    LET from == renderIn.points[1]
        to == renderIn.points[2]
        x == Min(from.x, to.x)
        y == Min(from.y, to.y)
        w == Abs(to.x - from.x)
        h == Abs(to.y - from.y)
        Covers(k, ptx, pty) ==
            /\ ops[k].args[1] <= ptx /\ ptx < ops[k].args[1] + ops[k].args[3]
            /\ ops[k].args[2] <= pty /\ pty < ops[k].args[2] + ops[k].args[4]
    IN  /\ Cardinality(FillRects(ops)) = Ceil10(w) * Ceil10(h)
        /\ \A k \in FillRects(ops) :
               /\ \E i \in 0..(Ceil10(w) - 1), j \in 0..(Ceil10(h) - 1) :
                      ops[k].args = <<x + 10 * i, y + 10 * j, 10, 10>>
               /\ k > 1 /\ ops[k - 1].op = "fillStyle"
               /\ \E g \in 100..199 : ops[k - 1].args = <<g, g, g>>
        /\ \A ptx \in x..(x + w - 1), pty \in y..(y + h - 1) :
               Cardinality({k \in FillRects(ops) : Covers(k, ptx, pty)}) = 1
        /\ (w = 0 \/ h = 0) => FillRects(ops) = {}

\* C30: for a mosaic annotation with bounding box (x, y, w, h) both painters
\* fill exactly ceil(w / 10) * ceil(h / 10) blocks of 10 x 10 at
\* (x + 10 i, y + 10 j); every point of the box lies in exactly one block;
\* every block is filled with rgb(g, g, g), 100 <= g <= 199; a box of zero
\* width or zero height paints nothing.
C30_MosaicTiling ==
    (renderIn.type = "mosaic" /\ Len(renderIn.points) >= 2) =>
        /\ previewOps # <<>> => MosaicTiled(previewOps)
        /\ exportOps # <<>> => MosaicTiled(exportOps)

C30_Witness ==
    /\ renderIn.type = "mosaic"
    /\ renderIn.points = <<Point(25, 25), Point(0, 0)>>
    /\ Cardinality(FillRects(previewOps)) = 9
    /\ Cardinality(FillRects(exportOps)) = 9

----------------------------------------------------------------------------
(* The painting of confirm() run twice on one base image and one list *)

\* the annotations of the lists: one of each drawing type, as the editor
\* commits them
CompositeAnns ==
    {[type |-> t, points |-> <<Point(0, 0), Point(25, 10)>>, text |-> "",
      style |-> [color |-> "#ff0000", lineWidth |-> 2, fontSize |-> 0]] :
        t \in {"rect", "arrow", "mosaic"}}
    \cup {[type |-> "text", points |-> <<Point(10, 25)>>, text |-> "hi",
           style |-> [color |-> "#ff0000", lineWidth |-> 2, fontSize |-> 16]]}

\* longest annotation list painted: [rect, arrow, text] and lists with two
\* mosaics are among them
MaxListLen == 3

CompositeLists == UNION {[1..n -> CompositeAnns] : n \in 0..MaxListLen}

\* confirm(): ctx.drawImage(img, 0, 0), then the forEach over the list; the
\* draws of Math.random() are taken from one stream, an exception thrown by
\* the body ends the loop
RECURSIVE forEachPaints(_, _)
forEachPaints(anns, seed) ==
    IF anns = <<>> THEN <<>>
    ELSE LET a == [type |-> Head(anns).type, points |-> Head(anns).points,
                   text |-> Head(anns).text, style |-> Head(anns).style,
                   seed |-> seed]
             ops == confirmPaints(a)
             draws == Cardinality(FillRects(ops))
         IN  IF ops[Len(ops)].op = "throw" THEN ops
             ELSE ops \o forEachPaints(Tail(anns), (seed + 37 * draws) % 100)

compositePaints(base, anns, seed) ==
    <<Call("drawImage", <<base, 0, 0>>)>> \o forEachPaints(anns, seed)

InitComposite ==
    /\ compositeIn \in [base : {Cropped}, anns : CompositeLists]
    /\ compositeRuns = <<>>
    /\ RenderIdle /\ LayoutIdle /\ InitEditor

\* one run of the painting, Math.random() giving the stream started at seed
RunComposite(seed) ==
    /\ Len(compositeRuns) < 2
    /\ compositeRuns' = Append(compositeRuns,
                               compositePaints(compositeIn.base, compositeIn.anns, seed))
    /\ UNCHANGED <<compositeIn, renderVars, layoutVars, editorVars, uaVars, selVars,
                   appVars, ghostVars>>

NextComposite == \E seed \in RandomSeeds : RunComposite(seed)

InitCompositor == InitUA /\ InitSel /\ InitApp /\ InitGhostOff /\ InitComposite

SpecComposite == InitCompositor /\ [][NextComposite]_vars

HasMosaic(anns) == \E i \in DOMAIN anns : anns[i].type = "mosaic"

\* C24: two runs of the composite on the same base image and the same list
\* make the same canvas calls when the list holds no mosaic; with a mosaic
\* they may differ, and then only in the gray values of the mosaic blocks.
C24_CompositeDeterminism ==
    Len(compositeRuns) = 2 =>
        LET r1 == compositeRuns[1]
            r2 == compositeRuns[2]
        IN  /\ ~HasMosaic(compositeIn.anns) => r1 = r2
            /\ Len(r1) = Len(r2)
            /\ \A k \in DOMAIN r1 :
                   r1[k] # r2[k] =>
                       /\ r1[k].op = "fillStyle" /\ r2[k].op = "fillStyle"
                       /\ \E g \in 100..199 : r1[k].args = <<g, g, g>>
                       /\ \E g \in 100..199 : r2[k].args = <<g, g, g>>
                       /\ k < Len(r1) /\ r1[k + 1].op = "fillRect"

C24_Witness ==
    /\ Len(compositeRuns) = 2
    /\ HasMosaic(compositeIn.anns)
    /\ Len(compositeIn.anns) = 3
    /\ compositeRuns[1] # compositeRuns[2]

----------------------------------------------------------------------------
(* The computeds toolbarPosition and ocrPosition of App.vue *)

TOOLBAR_WIDTH == 580
TOOLBAR_HEIGHT == 48
TOOLBAR_GAP == 10
OCR_WIDTH == 400
OCR_HEIGHT == 200
OCR_GAP == 10

\* the selections and window sizes the layout is evaluated on: they include
\* bottom and top space of 57 and 58, a window lower than the panel, the
\* selection y = 590, height = 5 in a window 600 high, and right-hand space
\* of 587 / 588 (x = 693 / 692) and 407 / 408 (x = 873 / 872)
SelXs == {0, 5, 8, 692, 693, 700, 872, 873, 950}
SelYs == {0, 5, 57, 58, 100, 590}
SelHeights == {0, 5, 42, 43, 500}
ScreenHs == {40, 48, 100, 158, 600}
LayoutInputs ==
    [sel : [x : SelXs, y : SelYs, width : {100}, height : SelHeights],
     screenW : {1280}, screenH : ScreenHs]

\* toolbarPosition: which of the three ways the top is resolved
toolbarBranchNoAbove(sel, screenH) ==
    LET bottomSpace == screenH - (sel.y + sel.height)
    IN  IF bottomSpace >= TOOLBAR_HEIGHT + TOOLBAR_GAP THEN "below" ELSE "clamp"

toolbarBranch(sel, screenH) ==
    LET bottomSpace == screenH - (sel.y + sel.height)
        topSpace == sel.y
    IN  IF bottomSpace >= TOOLBAR_HEIGHT + TOOLBAR_GAP THEN "below"
        ELSE IF topSpace >= TOOLBAR_HEIGHT + TOOLBAR_GAP THEN "above"
        ELSE "clamp"

\* toolbarPosition: let top
toolbarTopNoMin(sel, screenH) ==
    CASE toolbarBranch(sel, screenH) = "below" -> sel.y + sel.height + TOOLBAR_GAP
      [] toolbarBranch(sel, screenH) = "above" -> sel.y - TOOLBAR_HEIGHT - TOOLBAR_GAP
      [] OTHER -> Max(0, sel.y + sel.height + TOOLBAR_GAP)

toolbarTopUnclamped(sel, screenH) ==
    CASE toolbarBranch(sel, screenH) = "below" -> sel.y + sel.height + TOOLBAR_GAP
      [] toolbarBranch(sel, screenH) = "above" -> sel.y - TOOLBAR_HEIGHT - TOOLBAR_GAP
      [] OTHER -> Min(sel.y + sel.height + TOOLBAR_GAP, screenH - TOOLBAR_HEIGHT)

toolbarTop(sel, screenH) ==
    CASE toolbarBranch(sel, screenH) = "below" -> sel.y + sel.height + TOOLBAR_GAP
      [] toolbarBranch(sel, screenH) = "above" -> sel.y - TOOLBAR_HEIGHT - TOOLBAR_GAP
      [] OTHER -> Max(0, Min(sel.y + sel.height + TOOLBAR_GAP,
                             screenH - TOOLBAR_HEIGHT))

\* toolbarPosition: the style object; anchor "right" is { right: margin,
\* left: 'auto' }, anchor "left" is { left: left, right: 'auto' }
toolbarPosition(sel, screenW, screenH) ==
    LET margin == 8
    IN  IF screenW - sel.x < TOOLBAR_WIDTH + margin
        THEN [anchor |-> "right", offset |-> margin, top |-> toolbarTop(sel, screenH)]
        ELSE [anchor |-> "left", offset |-> Max(sel.x, margin),
              top |-> toolbarTop(sel, screenH)]

\* `${top}px` and parseFloat of it: the number is printed in decimal with the
\* unit appended, and parseFloat reads the leading decimal number back
Px(n) == [digits |-> n, unit |-> "px"]
parseFloat(str) == str.digits

\* ocrPosition: let top
ocrTopStacked(sel, screenW, screenH) ==
    LET toolTop == parseFloat(Px(toolbarPosition(sel, screenW, screenH).top))
        top == toolTop + TOOLBAR_HEIGHT + OCR_GAP
    IN  IF top + OCR_HEIGHT > screenH THEN Max(0, screenH - OCR_HEIGHT) ELSE top

ocrTop(sel, screenW, screenH) ==
    LET toolTop == parseFloat(Px(toolbarPosition(sel, screenW, screenH).top))
        isToolbarBelow == toolTop > sel.y
        top == IF isToolbarBelow
               THEN toolTop + TOOLBAR_HEIGHT + OCR_GAP
               ELSE sel.y + sel.height + TOOLBAR_GAP
    IN  IF top + OCR_HEIGHT > screenH THEN Max(0, screenH - OCR_HEIGHT) ELSE top

\* ocrPosition: the style object
ocrPositionToolbarWidth(sel, screenW, screenH) ==
    LET margin == 8
    IN  IF screenW - sel.x < TOOLBAR_WIDTH + margin
        THEN [anchor |-> "right", offset |-> margin, top |-> ocrTop(sel, screenW, screenH)]
        ELSE [anchor |-> "left", offset |-> Max(sel.x, margin),
              top |-> ocrTop(sel, screenW, screenH)]

ocrPosition(sel, screenW, screenH) ==
    LET margin == 8
    IN  IF screenW - sel.x < OCR_WIDTH + margin
        THEN [anchor |-> "right", offset |-> margin, top |-> ocrTop(sel, screenW, screenH)]
        ELSE [anchor |-> "left", offset |-> Max(sel.x, margin),
              top |-> ocrTop(sel, screenW, screenH)]

InitLayout ==
    /\ layoutIn \in LayoutInputs
    /\ toolbarPos = <<>>
    /\ ocrPos = <<>>
    /\ RenderIdle /\ CompositeIdle /\ InitEditor

\* the computed is evaluated for the template
EvalToolbarPosition ==
    /\ toolbarPos = <<>>
    /\ toolbarPos' = <<toolbarPosition(layoutIn.sel, layoutIn.screenW, layoutIn.screenH)>>
    /\ UNCHANGED <<layoutIn, ocrPos, renderVars, compositeVars, editorVars,
                   uaVars, selVars, appVars, ghostVars>>

\* the computed is evaluated for the result panel
EvalOcrPosition ==
    /\ ocrPos = <<>>
    /\ ocrPos' = <<ocrPosition(layoutIn.sel, layoutIn.screenW, layoutIn.screenH)>>
    /\ UNCHANGED <<layoutIn, toolbarPos, renderVars, compositeVars, editorVars,
                   uaVars, selVars, appVars, ghostVars>>

NextLayout == EvalToolbarPosition \/ EvalOcrPosition

InitToolbar == InitUA /\ InitSel /\ InitApp /\ InitGhostOff /\ InitLayout

SpecLayout == InitToolbar /\ [][NextLayout]_vars

\* C19: the tool panel's top is sel.y + sel.height + gap when
\* screenH - (sel.y + sel.height) >= H_t + gap; otherwise sel.y - H_t - gap
\* when sel.y >= H_t + gap; otherwise max(0, min(sel.y + sel.height + gap,
\* screenH - H_t)); H_t = 48, gap = 10.
C19_ToolbarTop ==
    toolbarPos # <<>> =>
        LET y == layoutIn.sel.y
            h == layoutIn.sel.height
            H == layoutIn.screenH
        IN  toolbarPos[1].top =
                IF H - (y + h) >= 48 + 10 THEN y + h + 10
                ELSE IF y >= 48 + 10 THEN y - 48 - 10
                ELSE Max(0, Min(y + h + 10, H - 48))

C19_Witness ==
    /\ toolbarPos # <<>>
    /\ layoutIn.sel.y = 5 /\ layoutIn.sel.height = 500 /\ layoutIn.screenH = 40
    /\ toolbarPos[1].top = 0

\* the selection y = 590, height = 5 in a window 600 high
ClampExample ==
    /\ toolbarPos # <<>>
    /\ layoutIn.sel.y = 590
    /\ layoutIn.sel.height = 5
    /\ layoutIn.screenH = 600

\* C20 as stated: with window height 600, sel.y = 590, sel.height = 5 there
\* is no room above or below, the clamp branch is taken and the top is 552.
\* (Refuted: sel.y = 590 >= 58, so the panel goes above the selection.)
C20_ClampExample552 ==
    ClampExample =>
        /\ toolbarBranch(layoutIn.sel, layoutIn.screenH) = "clamp"
        /\ toolbarPos[1].top = 552

\* C20 amended: with window height 600, sel.y = 590, sel.height = 5 there is
\* no room below (5 < 58) but there is room above (590 >= 58): the panel is
\* placed above the selection and its top is 590 - 48 - 10 = 532.
C20_ExampleAbove532 ==
    ClampExample =>
        /\ toolbarBranch(layoutIn.sel, layoutIn.screenH) = "above"
        /\ toolbarPos[1].top = 532

C20_Witness ==
    /\ ClampExample
    /\ layoutIn.screenH - (layoutIn.sel.y + layoutIn.sel.height) = 5
    /\ toolbarPos[1].top = 532

\* both computeds have been evaluated on the same selection and window
BothPanels == toolbarPos # <<>> /\ ocrPos # <<>>

\* C21: a panel of width W (580 tool panel, 400 result panel) is anchored to
\* the right edge (right = 8, left = auto) exactly when screenW - sel.x < W + 8
\* and is otherwise left-aligned at max(8, sel.x); with screenW = 1280 and
\* sel.x = 950 the tool panel is right-anchored.
C21_HorizontalPlacement ==
    LET Placed(pos, W) ==
            LET x == layoutIn.sel.x
            IN  /\ pos.anchor = "right" <=> layoutIn.screenW - x < W + 8
                /\ pos.anchor = "right" => pos.offset = 8
                /\ pos.anchor # "right" =>
                       /\ pos.anchor = "left"
                       /\ pos.offset = (IF x > 8 THEN x ELSE 8)
    IN  /\ toolbarPos # <<>> => Placed(toolbarPos[1], 580)
        /\ ocrPos # <<>> => Placed(ocrPos[1], 400)
        /\ (toolbarPos # <<>> /\ layoutIn.screenW = 1280 /\ layoutIn.sel.x = 950)
               => toolbarPos[1].anchor = "right"

C21_Witness ==
    /\ BothPanels
    /\ layoutIn.screenW = 1280 /\ layoutIn.sel.x = 700
    /\ toolbarPos[1].anchor = "right"
    /\ ocrPos[1].anchor = "left" /\ ocrPos[1].offset = 700

\* C22: the result panel's top is base when base + 200 <= screenH and
\* otherwise max(0, screenH - 200), where base = toolTop + 48 + 10 if the tool
\* panel took its 'room below' branch and base = sel.y + sel.height + 10
\* otherwise: the test toolTop > sel.y of the code gives the same top as the
\* branch test, also where the tool panel is clamped.
C22_OcrTop ==
    ocrPos # <<>> =>
        LET y == layoutIn.sel.y
            h == layoutIn.sel.height
            H == layoutIn.screenH
            roomBelow == H - (y + h) >= 48 + 10
            base == IF roomBelow THEN (y + h + 10) + 48 + 10 ELSE y + h + 10
        IN  /\ ocrPos[1].top = IF base + 200 <= H THEN base
                               ELSE IF H - 200 > 0 THEN H - 200 ELSE 0
            /\ H >= 200 => ocrPos[1].top + 200 <= H

C22_Witness ==
    /\ BothPanels
    /\ layoutIn.sel.y = 57 /\ layoutIn.sel.height = 500 /\ layoutIn.screenH = 600
    /\ toolbarBranch(layoutIn.sel, layoutIn.screenH) = "clamp"
    /\ toolbarPos[1].top > layoutIn.sel.y
    /\ ocrPos[1].top = 400

\* the selection lies inside the window
SelInViewport ==
    /\ 0 <= layoutIn.sel.x /\ layoutIn.sel.x + layoutIn.sel.width <= layoutIn.screenW
    /\ 0 <= layoutIn.sel.y /\ layoutIn.sel.y + layoutIn.sel.height <= layoutIn.screenH

\* left edge of a panel of width W placed by a style object
PanelLeft(pos, W) ==
    IF pos.anchor = "left" THEN pos.offset ELSE layoutIn.screenW - pos.offset - W

\* C28: for every selection inside the window the result panel does not
\* overlap the tool panel: [toolTop, toolTop + 48) and [ocrTop, ocrTop + 200)
\* are disjoint or the panels are horizontally disjoint.  (Refuted: a result
\* panel clamped to the bottom of the window covers a tool panel below the
\* selection.)
C28_PanelsDisjoint ==
    (BothPanels /\ SelInViewport) =>
        LET toolTop == toolbarPos[1].top
            ocrPanelTop == ocrPos[1].top
            toolLeft == PanelLeft(toolbarPos[1], 580)
            ocrLeft == PanelLeft(ocrPos[1], 400)
        IN  \/ toolTop + 48 <= ocrPanelTop
            \/ ocrPanelTop + 200 <= toolTop
            \/ toolLeft + 580 <= ocrLeft
            \/ ocrLeft + 400 <= toolLeft

\* C29: for a selection inside the window vertically and screenH >= 48 the
\* tool panel lies inside the window vertically (0 <= top, top + 48 <=
\* screenH) in all three branches, and below or above the selection its
\* vertical range does not meet the selection's.
C29_ToolbarInsideViewport ==
    LET y == layoutIn.sel.y
        h == layoutIn.sel.height
        H == layoutIn.screenH
    IN  (toolbarPos # <<>> /\ 0 <= y /\ y + h <= H /\ H >= 48) =>
            LET top == toolbarPos[1].top
            IN  /\ 0 <= top /\ top + 48 <= H
                /\ H - (y + h) >= 58 => top >= y + h
                /\ (H - (y + h) < 58 /\ y >= 58) => top + 48 <= y

C29_Witness ==
    /\ toolbarPos # <<>>
    /\ layoutIn.sel.y = 5 /\ layoutIn.sel.height = 42 /\ layoutIn.screenH = 48
    /\ toolbarBranch(layoutIn.sel, layoutIn.screenH) = "clamp"
    /\ toolbarPos[1].top = 0

----------------------------------------------------------------------------
(* Properties of completions that arrive late or not at all *)

StartCapturePending ==
    Pending(Flow("startCapture", "capture")) \/ Pending(Flow("startCapture", "show"))

\* C25: once reset has run the mode stays idle and croppedImage stays empty
\* until the next startCapture: while the App is idle and no startCapture is
\* under way, no step sets the mode to editing or fills croppedImage.
\* (Refuted: the onload callbacks of onFullscreen and cropImage run whenever
\* the image has loaded, also after a reset.)
C25_IdleUntilStartCapture ==
    [][(mode = "idle" /\ croppedImage = "" /\ ~StartCapturePending) =>
          (mode' = "idle" /\ croppedImage' = "")]_vars

\* C26: an OCR result is shown, and copied to the clipboard, only in the
\* editing session that requested it: when the session has ended (the App is
\* idle) a late completion neither sets ocrResult / showOcrResult nor writes
\* text to the clipboard, and a session that starts shows no OCR result.
\* (Refuted: performOcr continues after a reset as if nothing had happened.)
C26_OcrResultInItsSession ==
    [][/\ mode = "idle" =>
              /\ showOcrResult' = FALSE
              /\ ocrResult' = ""
              /\ ~Issued("copy_text_to_clipboard")'
       /\ (mode # "editing" /\ mode' = "editing") => showOcrResult' = FALSE]_vars

\* C27: every confirm or cancel completes, whether its requests succeed or
\* fail: a confirm() or cancel() call never ends before it has run reset and
\* requested hide_window (an ended call can do neither any more).  (Refuted:
\* a rejected restore_window leaves confirm() and cancel() at once.)
C27_ConfirmCancelComplete ==
    [][\A f \in DOMAIN flows :
          (/\ f.kind \in {"confirm", "cancel"}
           /\ CopiesIn(f, flows') < CopiesIn(f, flows)
           /\ BagCardinality(flows') < BagCardinality(flows)) =>
              f.pc = "hide"]_vars

----------------------------------------------------------------------------
(* AnnotationEditor.vue: drawing a shape by drag, placing a text *)

\* the tools of the Toolbar's buttons, the pointer positions and the texts
\* the editor is driven with
ToolButtons == {"rect", "arrow", "text", "mosaic"}
EditorPoints == {Point(0, 0), Point(11, 11)}
EditorTexts == {"", "hi"}

\* largest number of snapshots history may hold while the editor is explored
MaxEditorHistory == 2
EditorRoomToCommit == historyIndex + 2 <= MaxEditorHistory

\* the annotation objects the editor emits: text is "" where the object has
\* no text field (id and style play no part here)
Shape(type, points) == [type |-> type, points |-> points, text |-> ""]
Text(point, text) == [type |-> "text", points |-> <<point>>, text |-> text]

\* an editor handler ran and left the App as it was
EditorRan(op) ==
    /\ emitted' = <<>>
    /\ effects' = <<>>
    /\ NoFailure
    /\ RanApp(op, "-")
    /\ UNCHANGED <<isSelecting, startPoint, endPoint, mode, appSelection, dataVars,
                   ocrVars, flows, cancelled, pureVars>>

\* Toolbar tool button: @update:current-tool="currentTool = $event"
EditorSetTool(tool) ==
    /\ mode = "editing"
    /\ currentTool' = tool
    /\ EditorRan("setTool")
    /\ UNCHANGED <<uaVars, isDrawing, drawStart, currentPoints, textInput, textPosition>>

\* onMouseDown(e)
EditorMouseDown(p) ==
    /\ mode = "editing"
    /\ IF currentTool = "select"
       THEN UNCHANGED <<isDrawing, drawStart, currentPoints, textPosition>>
       ELSE IF currentTool = "text"
       THEN /\ textPosition' = <<p>>
            /\ UNCHANGED <<isDrawing, drawStart, currentPoints>>
       ELSE /\ isDrawing' = TRUE
            /\ drawStart' = p
            /\ currentPoints' = <<p>>
            /\ textPosition' = textPosition
    /\ EditorRan("editorMouseDown")
    /\ UNCHANGED <<uaVars, currentTool, textInput>>

\* onMouseMove(e)
EditorMouseMove(p) ==
    /\ mode = "editing"
    /\ currentPoints' = IF isDrawing THEN <<drawStart, p>> ELSE currentPoints
    /\ EditorRan("editorMouseMove")
    /\ UNCHANGED <<uaVars, currentTool, isDrawing, drawStart, textInput, textPosition>>

\* onMouseUp: what it emits as 'add-annotation'
onMouseUpAdds(tool, points) ==
    IF Len(points) >= 2 THEN <<Shape(tool, points)>> ELSE <<>>

\* onMouseUp(), bound to @mouseup and @mouseleave; @add-annotation="addAnnotation"
EditorMouseUp ==
    /\ mode = "editing"
    /\ IF isDrawing
       THEN /\ isDrawing' = FALSE
            /\ currentPoints' = <<>>
            /\ IF onMouseUpAdds(currentTool, currentPoints) # <<>>
               THEN /\ EditorRoomToCommit
                    /\ SetUA(addAnnotationOf(CurUA, onMouseUpAdds(currentTool, currentPoints)[1]))
               ELSE UNCHANGED uaVars
       ELSE UNCHANGED <<uaVars, isDrawing, currentPoints>>
    /\ EditorRan("editorMouseUp")
    /\ UNCHANGED <<currentTool, drawStart, textInput, textPosition>>

\* the text input (v-if="textPosition", v-model="textInput") is typed into
EditorTypeText(text) ==
    /\ mode = "editing"
    /\ textPosition # <<>>
    /\ textInput' = text
    /\ EditorRan("typeText")
    /\ UNCHANGED <<uaVars, currentTool, isDrawing, drawStart, currentPoints, textPosition>>

\* submitText(), bound to @keyup.enter of the text input
EditorSubmitText ==
    /\ mode = "editing"
    /\ textPosition # <<>>
    /\ IF textInput # ""
       THEN /\ EditorRoomToCommit
            /\ SetUA(addAnnotationOf(CurUA, Text(textPosition[1], textInput)))
            /\ textInput' = ""
            /\ textPosition' = <<>>
       ELSE UNCHANGED <<uaVars, textInput, textPosition>>
    /\ EditorRan("submitText")
    /\ UNCHANGED <<currentTool, isDrawing, drawStart, currentPoints>>

\* @keyup.esc="textPosition = null"
EditorEscText ==
    /\ mode = "editing"
    /\ textPosition # <<>>
    /\ textPosition' = <<>>
    /\ EditorRan("escText")
    /\ UNCHANGED <<uaVars, currentTool, isDrawing, drawStart, currentPoints, textInput>>

\* the editor entered with the whole screen and used with every tool
NextEditor ==
    \/ EnterEditing
    \/ \E tool \in ToolButtons : EditorSetTool(tool)
    \/ \E p \in EditorPoints : EditorMouseDown(p)
    \/ \E p \in EditorPoints : EditorMouseMove(p)
    \/ EditorMouseUp
    \/ \E text \in EditorTexts : EditorTypeText(text)
    \/ EditorSubmitText
    \/ EditorEscText

SpecEditor == Init /\ [][NextEditor]_vars

\* the per-type invariants of an annotation
WellFormed(a) ==
    \/ a.type \in {"rect", "arrow", "mosaic"} /\ Len(a.points) = 2
    \/ a.type = "text" /\ Len(a.points) = 1 /\ a.text # ""

\* C23: every annotation committed through the editor is a rect, arrow or
\* mosaic with exactly two points, the anchor of the pointer-down and the
\* last pointer position, or a text with exactly one point and a non-empty
\* text; none has type 'select'; a press and release without a move, and an
\* empty text submission, commit nothing.  (Refuted: onMouseUp takes the
\* type from the tool selected at release, which may be 'text' by then.)
C23_CommittedWellFormed ==
    [][/\ \A i \in DOMAIN annotations' : WellFormed(annotations'[i])
       /\ \A i \in DOMAIN history' :
              \A j \in DOMAIN history'[i] : WellFormed(history'[i][j])
       /\ (annotations' # annotations /\ isDrawing) =>
              /\ Len(currentPoints) = 2
              /\ annotations' = Append(annotations,
                                       annotations'[Len(annotations')])
              /\ annotations'[Len(annotations')].points
                     = <<drawStart, currentPoints[2]>>
       /\ (annotations' # annotations /\ ~isDrawing) =>
              /\ textInput # ""
              /\ annotations' = Append(annotations, Text(textPosition[1], textInput))
       /\ (isDrawing /\ ~isDrawing' /\ Len(currentPoints) < 2) =>
              annotations' = annotations]_vars

====
